---- MODULE Spec2Model ----
(***************************************************************************)
(* A model of the course retrieval and recommendation core:                *)
(*   HarvardDatabase  (src/database.py)          the course index          *)
(*   QueryProcessor   (src/query_processor.py)   the query interpreter     *)
(*   CourseFinder     (src/course_finder.py)     the retrieval engine      *)
(*   CourseRecommender(src/course_recommender.py) the recommender          *)
(* Python strings are TLA+ strings, read character by character with       *)
(* SubSeq; a nullable field is a tagged value [t, v] so that "not a        *)
(* string", None and NaN are told apart the way the code tells them apart. *)
(* A confidence or ranking score is an integer number of ten-thousandths    *)
(* (0.9 is 9000); a rating or an hours figure is an integer number of       *)
(* hundredths (4.5 is 450).                                                 *)
(***************************************************************************)
EXTENDS Integers, Sequences, FiniteSets, TLC

VARIABLES
    db,          \* HarvardDatabase: course_dict and the lookup tables
    qp_seed,     \* the string hash seed of the interpreter's Python process
    qp_last,     \* last_query_info as the caller keeps it between queries
    qp_run,      \* the latest QueryProcessor run: its inputs and its query_info
    qp_self,     \* the QueryProcessor instance of that run: its self_reflection lists
    cf,          \* CourseFinder: search_cache and confidence_scores
    cf_call,     \* the latest find_courses call: its input and its outcome
    cf_first,    \* relevant_courses of the first call with each input
    cf_calls,    \* the number of find_courses calls made on the CourseFinder
    cr,          \* CourseRecommender: recommendation_cache and confidence
    cr_call,     \* the latest get_recommendations call: its input and its outcome
    cr_calls,    \* the number of get_recommendations calls made on the recommender
    th,          \* the find_courses call each thread is in, step by step
    chat         \* the chat session: chat_history, processing_query, last_query_info

db_vars == <<db>>
qp_vars == <<qp_seed, qp_last, qp_run, qp_self>>
cf_vars == <<cf, cf_call, cf_first, cf_calls>>
cr_vars == <<cr, cr_call, cr_calls>>
th_vars == <<th>>
chat_vars == <<chat>>
vars == <<db, qp_seed, qp_last, qp_run, qp_self, cf, cf_call, cf_first, cf_calls, cr, cr_call, cr_calls, th, chat>>

-----------------------------------------------------------------------------
(* Strings *)

LowerAlpha == "abcdefghijklmnopqrstuvwxyz"
UpperAlpha == "ABCDEFGHIJKLMNOPQRSTUVWXYZ"
DigitChars == "0123456789"

\* the value v has been computed: true of every value, and evaluating it
\* computes v where it stands
Computed(v) == v = v

\* the statements F that follow an assignment x = v, with x standing for
\* the value of v, computed once
With(v, F(_)) == CHOOSE y \in {F(x) : x \in {v}} : TRUE

CharAt(s, i) == SubSeq(s, i, i)

LowerSet == {CharAt(LowerAlpha, i) : i \in 1..Len(LowerAlpha)}
UpperSet == {CharAt(UpperAlpha, i) : i \in 1..Len(UpperAlpha)}
DigitSet == {CharAt(DigitChars, i) : i \in 1..Len(DigitChars)}
LetterSet == LowerSet \cup UpperSet
WordSet == LetterSet \cup DigitSet \cup {"_"}

\* str.lower, str.upper and int on one character
LowerMap == [c \in UpperSet |->
                CharAt(LowerAlpha, CHOOSE i \in 1..Len(UpperAlpha) : CharAt(UpperAlpha, i) = c)]
UpperMap == [c \in LowerSet |->
                CharAt(UpperAlpha, CHOOSE i \in 1..Len(LowerAlpha) : CharAt(LowerAlpha, i) = c)]
DigitMap == [c \in DigitSet |->
                (CHOOSE i \in 1..Len(DigitChars) : CharAt(DigitChars, i) = c) - 1]

IsLower(c) == c \in LowerSet
IsUpper(c) == c \in UpperSet
IsLetter(c) == c \in LetterSet
IsDigit(c) == c \in DigitSet
IsSpace(c) == c = " "
\* \w of the regular expressions: a letter, a digit or the underscore
IsWordChar(c) == c \in WordSet

LowerChar(c) == IF IsUpper(c) THEN LowerMap[c] ELSE c
UpperChar(c) == IF IsLower(c) THEN UpperMap[c] ELSE c

\* str.lower and str.upper, character by character: a string of more than
\* one character is converted half by half
RECURSIVE StrLower(_)
StrLower(s) ==
    IF Len(s) = 0 THEN ""
    ELSE IF Len(s) = 1 THEN LowerChar(s)
    ELSE StrLower(SubSeq(s, 1, Len(s) \div 2)) \o StrLower(SubSeq(s, Len(s) \div 2 + 1, Len(s)))

RECURSIVE StrUpper(_)
StrUpper(s) ==
    IF Len(s) = 0 THEN ""
    ELSE IF Len(s) = 1 THEN UpperChar(s)
    ELSE StrUpper(SubSeq(s, 1, Len(s) \div 2)) \o StrUpper(SubSeq(s, Len(s) \div 2 + 1, Len(s)))

\* needle occurs in hay starting at position i
MatchesAt(hay, needle, i) ==
    /\ i >= 1
    /\ i + Len(needle) - 1 <= Len(hay)
    /\ SubSeq(hay, i, i + Len(needle) - 1) = needle

\* Python's "needle in hay"
StrContains(hay, needle) == \E i \in 1..(Len(hay) + 1) : MatchesAt(hay, needle, i)

\* the character classes of the regular expressions the code uses
ClassChars ==
    [letter |-> LetterSet, upper |-> UpperSet, digit |-> DigitSet, space |-> {" "},
     word |-> WordSet, wordspace |-> WordSet \cup {" "}, spacedash |-> {" ", "-"},
     letterdash |-> LetterSet \cup {"-"}]

InClass(c, cls) == IF cls = "nonspace" THEN c # " " ELSE c \in ClassChars[cls]

\* the end (exclusive) of the maximal run of characters of class cls from i
RECURSIVE RunEnd(_, _, _)
RunEnd(s, i, cls) ==
    IF i <= Len(s) /\ InClass(CharAt(s, i), cls) THEN RunEnd(s, i + 1, cls) ELSE i

\* int(digits)
RECURSIVE StrToInt(_)
StrToInt(s) ==
    IF s = "" THEN 0
    ELSE StrToInt(SubSeq(s, 1, Len(s) - 1)) * 10 + DigitMap[CharAt(s, Len(s))]

\* str(n) for n >= 0
RECURSIVE IntToStr(_)
IntToStr(n) ==
    IF n < 10 THEN CharAt(DigitChars, n + 1)
    ELSE IntToStr(n \div 10) \o CharAt(DigitChars, (n % 10) + 1)

\* str.split(): the whitespace-separated tokens of s, in order
RECURSIVE SplitFrom(_, _)
SplitFrom(s, i) ==
    IF i > Len(s) THEN <<>>
    ELSE IF IsSpace(CharAt(s, i)) THEN SplitFrom(s, i + 1)
    ELSE LET e == RunEnd(s, i, "nonspace")
         IN  <<SubSeq(s, i, e - 1)>> \o SplitFrom(s, e)

StrSplit(s) == SplitFrom(s, 1)

SeqToSet(q) == {q[i] : i \in 1..Len(q)}

\* str.startswith and str.join
StartsWith(s, prefix) == MatchesAt(s, prefix, 1)

RECURSIVE StrJoin(_, _)
StrJoin(parts, sep) ==
    IF parts = <<>> THEN ""
    ELSE IF Len(parts) = 1 THEN parts[1]
    ELSE parts[1] \o sep \o StrJoin(Tail(parts), sep)

-----------------------------------------------------------------------------
(* Nullable values: a Python value that is a str, a number, None or NaN *)

Str(s) == [t |-> "str", v |-> s]
NaNStr == [t |-> "nan", v |-> ""]
NoneStr == [t |-> "none", v |-> ""]
IsStr(x) == x.t = "str"

Num(n) == [t |-> "num", v |-> n]
NaNNum == [t |-> "nan", v |-> 0]
NoneNum == [t |-> "none", v |-> 0]
IsNum(x) == x.t = "num"

\* Python's truth value of a nullable value: None, 0 and "" are false, NaN is true
Truthy(x) ==
    CASE x.t = "none" -> FALSE
      [] x.t = "nan" -> TRUE
      [] x.t = "num" -> x.v # 0
      [] OTHER -> x.v # ""

\* a dict as a function: d[k] = v added or replaced, and d.get(k, default)
Put(d, k, v) == [x \in (DOMAIN d) \cup {k} |-> IF x = k THEN v ELSE d[x]]
Get(d, k, default) == IF k \in DOMAIN d THEN d[k] ELSE default
EmptyDict == [x \in {} |-> 0]

-----------------------------------------------------------------------------
(* The course code pattern  ([A-Za-z]+)\s*(\d+)  and its {2,} variant *)

\* the match at i whose letters end at j, blanks at k and digits at e
CodeMatch(s, i, j, k, e, minLetters) ==
    [ok |-> (j - i >= minLetters) /\ (e > k),
     dept |-> SubSeq(s, i, j - 1),
     num |-> SubSeq(s, k, e - 1),
     start |-> i,
     end |-> e]

CodeDigits(s, i, j, k, minLetters) == CodeMatch(s, i, j, k, RunEnd(s, k, "digit"), minLetters)
CodeBlanks(s, i, j, minLetters) == CodeDigits(s, i, j, RunEnd(s, j, "space"), minLetters)

\* the match that starts at position i, with at least minLetters letters
MatchCodeAt(s, i, minLetters) == CodeBlanks(s, i, RunEnd(s, i, "letter"), minLetters)

NoMatch == [ok |-> FALSE, dept |-> "", num |-> "", start |-> 0, end |-> 0]

\* the match m if it is one, and otherwise the match found further on
FirstOk(m, later) == IF m.ok THEN m ELSE later

\* re.search: the leftmost match at or after position i
CodeSearchFrom(s, i, minLetters) ==
    With({j \in i..Len(s) : MatchCodeAt(s, j, minLetters).ok}, LAMBDA starts :
        IF starts = {} THEN NoMatch
        ELSE MatchCodeAt(s, CHOOSE j \in starts : \A k \in starts : j <= k, minLetters))

CodeSearch(s) == CodeSearchFrom(s, 1, 1)

\* re.finditer: the successive non-overlapping matches, left to right
RECURSIVE CodeFindAllFrom(_, _, _)
RECURSIVE CodeFindAllAfter(_, _, _)
CodeFindAllAfter(s, m, minLetters) ==
    IF m.ok THEN <<m>> \o CodeFindAllFrom(s, m.end, minLetters) ELSE <<>>

CodeFindAllFrom(s, i, minLetters) ==
    CodeFindAllAfter(s, CodeSearchFrom(s, i, minLetters), minLetters)

CodeFindAll(s, minLetters) == CodeFindAllFrom(s, 1, minLetters)

-----------------------------------------------------------------------------
(* Regular expressions: a pattern is a tree, and Ends gives the positions at *)
(* which a match that starts at one of the positions I can end               *)

Node(k, s, ps, cls) == [k |-> k, s |-> s, ps |-> ps, cls |-> cls]
Lit(s) == Node("lit", s, <<>>, "")
Cat(ps) == Node("cat", "", ps, "")
Alt(ps) == Node("alt", "", ps, "")
Opt(p) == Node("opt", "", <<p>>, "")
\* \b and ^
WB == Node("wb", "", <<>>, "")
BOL == Node("bol", "", <<>>, "")
\* [cls]* and [cls]+
Star(cls) == Node("star", "", <<>>, cls)
Plus(cls) == Node("plus", "", <<>>, cls)
\* (w1|w2|...) and \b(w1|w2|...)\b
Words(ws) == Alt([n \in 1..Len(ws) |-> Lit(ws[n])])
BWords(ws) == Cat(<<WB, Words(ws), WB>>)
Empty == Cat(<<>>)

\* \b holds at position i: exactly one of the characters around it is a \w
AtWordBoundary(s, i) ==
    LET before == i > 1 /\ i - 1 <= Len(s) /\ IsWordChar(CharAt(s, i - 1))
        after == i >= 1 /\ i <= Len(s) /\ IsWordChar(CharAt(s, i))
    IN  before # after

RECURSIVE Ends(_, _, _)
Ends(p, s, I) ==
    CASE p.k = "lit" -> {i + Len(p.s) : i \in {x \in I : MatchesAt(s, p.s, x)}}
      [] p.k = "cat" ->
            IF p.ps = <<>> THEN I
            ELSE Ends(Cat(Tail(p.ps)), s, Ends(Head(p.ps), s, I))
      [] p.k = "alt" -> UNION {Ends(p.ps[n], s, I) : n \in 1..Len(p.ps)}
      [] p.k = "opt" -> I \cup Ends(p.ps[1], s, I)
      [] p.k = "wb" -> {i \in I : AtWordBoundary(s, i)}
      [] p.k = "bol" -> {i \in I : i = 1}
      [] p.k = "star" -> UNION {i..RunEnd(s, i, p.cls) : i \in I}
      [] p.k = "plus" -> UNION {(i + 1)..RunEnd(s, i, p.cls) : i \in I}
      [] OTHER -> {}

\* re.search(p, s) finds a match
Search(p, s) == Ends(p, s, 1..(Len(s) + 1)) # {}

\* any(re.search(p, s) for p in ps)
SearchAny(ps, s) == \E n \in 1..Len(ps) : Search(ps[n], s)

SetMax(S) == CHOOSE x \in S : \A y \in S : y <= x
SetMin(S) == CHOOSE x \in S : \A y \in S : x <= y

\* hi, hi - 1, ..., lo + 1
DownTo(hi, lo) == [n \in 1..(hi - lo) |-> hi - n + 1]

\* the ends of (\d+(?:\.\d+)?) from j, whose digits end at e and whose fraction ends at f
FloatEnds(j, e, f) == (IF f > e + 1 THEN DownTo(f, e + 1) ELSE <<>>) \o DownTo(e, j)

FloatEndsAt(s, j, e) ==
    FloatEnds(j, e, IF e > j /\ e <= Len(s) /\ CharAt(s, e) = "."
                    THEN RunEnd(s, e + 1, "digit") ELSE e)

\* the ends a captured group that starts at j can have, in the order the
\* matcher tries them (greedy first): (\d+), (\d+(?:\.\d+)?) and ([\w\s]+)
CapEnds(s, j, kind) ==
    CASE kind = "int" -> DownTo(RunEnd(s, j, "digit"), j)
      [] kind = "float" -> FloatEndsAt(s, j, RunEnd(s, j, "digit"))
      [] kind = "words" -> DownTo(RunEnd(s, j, "wordspace"), j)
      [] OTHER -> <<>>

NoCap == [ok |-> FALSE, text |-> "", start |-> 0, end |-> 0]

\* the first of ends, from the n-th on, after which post matches; 0 if none
RECURSIVE FirstFit(_, _, _, _)
FirstFit(post, s, ends, n) ==
    IF n > Len(ends) THEN 0
    ELSE IF Ends(post, s, {ends[n]}) # {} THEN ends[n]
    ELSE FirstFit(post, s, ends, n + 1)

\* the end of the group that starts at j, 0 if the rest cannot match
CapEndAt(post, kind, s, j) == FirstFit(post, s, CapEnds(s, j, kind), 1)

CapMatch(post, s, i, j, e) ==
    [ok |-> TRUE, text |-> SubSeq(s, j, e - 1), start |-> i,
     end |-> SetMax(Ends(post, s, {e}))]

CapFrom(post, kind, s, i, good) ==
    IF good = {} THEN NoCap
    ELSE CapMatch(post, s, i, SetMax(good), CapEndAt(post, kind, s, SetMax(good)))

\* the match of  pre (capture) post  that starts at position i
CapAt(pre, kind, post, s, i) ==
    CapFrom(post, kind, s, i, {j \in Ends(pre, s, {i}) : CapEndAt(post, kind, s, j) # 0})

\* re.search for  pre (capture) post : the leftmost match at or after i
CapSearchFrom(pre, kind, post, s, i) ==
    With({j \in i..Len(s) : CapAt(pre, kind, post, s, j).ok}, LAMBDA starts :
        IF starts = {} THEN NoCap
        ELSE CapAt(pre, kind, post, s, CHOOSE j \in starts : \A k \in starts : j <= k))

CapSearch(pre, kind, post, s) == CapSearchFrom(pre, kind, post, s, 1)

\* re.finditer for  pre (capture) post
RECURSIVE CapFindAllFrom(_, _, _, _, _)
RECURSIVE CapFindAllAfter(_, _, _, _, _)
CapFindAllAfter(pre, kind, post, s, m) ==
    IF m.ok THEN <<m>> \o CapFindAllFrom(pre, kind, post, s, m.end) ELSE <<>>

CapFindAllFrom(pre, kind, post, s, i) ==
    CapFindAllAfter(pre, kind, post, s, CapSearchFrom(pre, kind, post, s, i))

CapFindAll(pre, kind, post, s) == CapFindAllFrom(pre, kind, post, s, 1)

NoRange == [ok |-> FALSE, lo |-> "", hi |-> "", start |-> 0, end |-> 0]

\* where the second (\d+) can start when the first one ends at e
Mids(mid, s, e) == {m \in Ends(mid, s, {e}) : m <= Len(s) /\ IsDigit(CharAt(s, m))}

\* the first of ends, from the n-th on, after which  mid (\d+)  matches; 0 if none
RECURSIVE FirstMid(_, _, _, _)
FirstMid(mid, s, ends, n) ==
    IF n > Len(ends) THEN 0
    ELSE IF Mids(mid, s, ends[n]) # {} THEN ends[n]
    ELSE FirstMid(mid, s, ends, n + 1)

RangeLoEnd(mid, s, j) == FirstMid(mid, s, CapEnds(s, j, "int"), 1)

RangeMatch(s, i, j, e, m, hi_end) ==
    [ok |-> TRUE, lo |-> SubSeq(s, j, e - 1), hi |-> SubSeq(s, m, hi_end - 1),
     start |-> i, end |-> hi_end]

RangeHi(s, i, j, e, m) == RangeMatch(s, i, j, e, m, RunEnd(s, m, "digit"))
RangeMid(mid, s, i, j, e) == RangeHi(s, i, j, e, SetMax(Mids(mid, s, e)))

RangeFrom(mid, s, i, good) ==
    IF good = {} THEN NoRange
    ELSE RangeMid(mid, s, i, SetMax(good), RangeLoEnd(mid, s, SetMax(good)))

\* the match of  pre (\d+) mid (\d+)  that starts at position i
RangeAt(pre, mid, s, i) ==
    RangeFrom(mid, s, i, {j \in Ends(pre, s, {i}) : RangeLoEnd(mid, s, j) # 0})

RECURSIVE RangeFindAllFrom(_, _, _, _)
RECURSIVE RangeFindAllAfter(_, _, _, _, _)
RangeFindAllAfter(pre, mid, s, i, m) ==
    <<m>> \o RangeFindAllFrom(pre, mid, s, m.end)

RangeFindAllFrom(pre, mid, s, i) ==
    With({j \in i..Len(s) : RangeAt(pre, mid, s, j).ok}, LAMBDA starts :
        IF starts = {} THEN <<>>
        ELSE RangeFindAllAfter(pre, mid, s, i, RangeAt(pre, mid, s, SetMin(starts))))

RangeFindAll(pre, mid, s) == RangeFindAllFrom(pre, mid, s, 1)

\* str.strip() and len(s.split())
RECURSIVE StrStrip(_)
StrStrip(s) ==
    IF s = "" THEN ""
    ELSE IF IsSpace(CharAt(s, 1)) THEN StrStrip(SubSeq(s, 2, Len(s)))
    ELSE IF IsSpace(CharAt(s, Len(s))) THEN StrStrip(SubSeq(s, 1, Len(s) - 1))
    ELSE s

WordCount(s) == Len(StrSplit(s))

\* s[-n:] and s[:n]
LastChars(s, n) == IF Len(s) <= n THEN s ELSE SubSeq(s, Len(s) - n + 1, Len(s))
FirstChars(s, n) == IF Len(s) <= n THEN s ELSE SubSeq(s, 1, n)

\* max and min of two numbers
Max2(a, b) == IF a >= b THEN a ELSE b
Min2(a, b) == IF a <= b THEN a ELSE b

\* the elements of q, each kept at its first occurrence
RECURSIVE Dedup(_)
DedupAppend(front, x) == IF x \in SeqToSet(front) THEN front ELSE Append(front, x)

Dedup(q) ==
    IF q = <<>> THEN <<>>
    ELSE With(Dedup(SubSeq(q, 1, Len(q) - 1)), LAMBDA front : DedupAppend(front, q[Len(q)]))

Reverse(q) == [n \in 1..Len(q) |-> q[Len(q) - n + 1]]


-----------------------------------------------------------------------------
(* HarvardDatabase *)

\* the decade a course number is filed under: 136 -> 130
LevelOf_tens(num) == (num \div 100) * 100
LevelOf(num) == (num \div 10) * 10

\* f"{dept} {num}" with dept upper-cased and num an int
CourseCode(dept, num) == StrUpper(dept) \o " " \o IntToStr(num)

\* a row of courses_df (merged with its Q report columns); the table has no
\* department, subject, days or times column unless a row is given one
Row(id, name, tag, term, score, hours) ==
    [course_id |-> id, class_name |-> name, class_tag |-> tag, term |-> term,
     overall_score_course_mean |-> score, mean_hours |-> hours,
     department |-> NoneStr, subject |-> NoneStr,
     days |-> NoneStr, start_times |-> NoneStr, end_times |-> NoneStr]

\* q_reports_df as the constructor is given it: None, or a table with the
\* columns course_id and mean_hours, one row for each Q report
QReport(id, hours) == [course_id |-> id, mean_hours |-> hours]
NoQReports == [given |-> FALSE, rows |-> <<>>]
QReports(rows) == [given |-> TRUE, rows |-> rows]

\* HarvardDatabase.__init__: every table empty; course_ids is the order in
\* which course_dict iterates, which is the order its keys were inserted in
EmptyDB ==
    [q_reports_df |-> NoQReports,
     course_dict |-> EmptyDict,
     course_ids |-> <<>>,
     course_by_code |-> EmptyDict,
     courses_by_level |-> EmptyDict,
     courses_by_term |-> EmptyDict,
     processed_ids |-> {},
     embedding_index |-> FALSE,
     course_ids_for_embeddings |-> <<>>,
     bm25_index |-> FALSE,
     course_ids_for_bm25 |-> <<>>,
     search_cache |-> EmptyDict]

\* dropna(subset=['class_name', 'course_id']): rows the loop never sees
RowDropped(row) == row.class_name.t \in {"nan", "none"}

\* the course filed under its code and its level, dept upper-cased and num an int
FileCourse(d, dept, num, course_id) ==
    [d EXCEPT
        !.course_by_code = Put(@, CourseCode(dept, num), course_id),
        !.courses_by_level =
            Put(@, <<dept, LevelOf(num)>>,
                Append(Get(@, <<dept, LevelOf(num)>>, <<>>), course_id))]

\* the class_tag part of one iteration of the loop of process_courses
IndexTag(d, row) ==
    With(IF IsStr(row.class_tag) THEN CodeSearch(row.class_tag.v) ELSE NoMatch, LAMBDA m :
        IF ~m.ok THEN d
        ELSE FileCourse(d, StrUpper(m.dept), StrToInt(m.num), row.course_id))

\* the term part of one iteration of the loop of process_courses
IndexTerm(d, row) ==
    IF IsStr(row.term) /\ row.term.v # ""
    THEN [d EXCEPT !.courses_by_term =
                Put(@, row.term.v, Append(Get(@, row.term.v, <<>>), row.course_id))]
    ELSE d

\* self.course_dict[course_id] = row.to_dict()
StoreCourse(d, row) ==
    [d EXCEPT !.processed_ids = @ \cup {row.course_id},
              !.course_dict = Put(@, row.course_id, row),
              !.course_ids = IF row.course_id \in DOMAIN d.course_dict
                             THEN @ ELSE Append(@, row.course_id)]

\* one iteration of the loop of process_courses, on a row of courses_df
ProcessRow(d, row) ==
    IF RowDropped(row) \/ row.course_id \in d.processed_ids THEN d
    ELSE IndexTerm(IndexTag(StoreCourse(d, row), row), row)

\* process_courses on a whole table: a row is stored and indexed before the
\* loop takes the next one
RECURSIVE ProcessAll(_, _)
ProcessAll(d, rows) ==
    IF rows = <<>> \/ ~Computed(d) THEN d
    ELSE ProcessAll(ProcessRow(d, Head(rows)), Tail(rows))

\* the courses _build_vector_search_index embeds: those with some text
HasText(course) == IsStr(course.class_name) \/ IsStr(course.class_tag)

\* the vector index is built when some course has text to embed
_build_vector_search_index(d) ==
    IF \E cid \in DOMAIN d.course_dict : HasText(d.course_dict[cid])
    THEN [d EXCEPT !.embedding_index = TRUE,
                   !.course_ids_for_embeddings =
                        SelectSeq(d.course_ids, LAMBDA cid : HasText(d.course_dict[cid]))]
    ELSE d

\* str.isalpha on a word of the alphabet used here
IsAlpha(word) == word # "" /\ \A i \in 1..Len(word) : IsLetter(CharAt(word, i))

basic_stopwords ==
    {"the", "a", "an", "and", "or", "but", "if", "because", "as", "what",
     "when", "where", "how", "who", "which", "this", "that", "these", "those",
     "then", "just", "so", "than", "such", "both", "through", "about", "for",
     "is", "of", "while", "during", "to", "from", "in", "on", "at", "by"}

\* the basic tokenization of lines 545 to 551; on the texts used here, plain
\* words and numbers, the NLTK path leaves a token exactly when this one does
_tokenize_text(text) ==
    SelectSeq(StrSplit(StrLower(text)), LAMBDA word : IsAlpha(word) /\ word \notin basic_stopwords)

\* the text parts of a course joined with blanks; the tables carry no
\* description, course_requirements or comments
CourseText(course) ==
    StrJoin((IF IsStr(course.class_name) THEN <<course.class_name.v>> ELSE <<>>)
            \o (IF IsStr(course.class_tag) THEN <<course.class_tag.v>> ELSE <<>>), " ")

\* the keyword index holds the courses whose text leaves some token
_build_bm25_index(d) ==
    With(SelectSeq(d.course_ids, LAMBDA cid : _tokenize_text(CourseText(d.course_dict[cid])) # <<>>),
         LAMBDA ids : [d EXCEPT !.bm25_index = (ids # <<>>), !.course_ids_for_bm25 = ids])

\* build_indexes: the vector index is built when the embedding model and
\* FAISS are available (vectors), the keyword index when rank_bm25 and NLTK
\* are (keywords)
build_indexes(d, vectors, keywords) ==
    With(IF vectors THEN _build_vector_search_index(d) ELSE d, LAMBDA indexed :
        IF keywords THEN _build_bm25_index(indexed) ELSE indexed)

get_course_by_id(d, course_id) ==
    IF course_id \in DOMAIN d.course_dict
    THEN [found |-> TRUE, id |-> course_id]
    ELSE [found |-> FALSE, id |-> 0]

\* the course a code maps to; found = FALSE is Python's None
get_course_by_code(d, course_code) ==
    LET course_id == Get(d.course_by_code, course_code, 0)
    IN  IF course_id # 0 THEN get_course_by_id(d, course_id)
        ELSE [found |-> FALSE, id |-> 0]

\* range(start, stop, 10) as a sequence
RECURSIVE RangeBy10(_, _)
RangeBy10(start, stop) ==
    IF start >= stop THEN <<>> ELSE <<start>> \o RangeBy10(start + 10, stop)

\* Python's floor division by ten (the levels are never negative here)
FloorDiv10(n) == n \div 10

\* the match of the code pattern in a class_tag, none when the tag is no string
TagMatch(tag) == IF IsStr(tag) THEN CodeSearch(tag.v) ELSE NoMatch

\* the number of the match m lies in [start_level, end_level]
NumberWithin(m, start_level, end_level) ==
    m.ok /\ StrToInt(m.num) >= start_level /\ StrToInt(m.num) <= end_level

\* the ids of one level bucket whose class_tag number lies in [start, end]
RECURSIVE FilterLevel(_, _, _, _)
FilterLevel(d, ids, start_level, end_level) ==
    IF ids = <<>> THEN <<>>
    ELSE (IF /\ Head(ids) \in DOMAIN d.course_dict
             /\ NumberWithin(TagMatch(d.course_dict[Head(ids)].class_tag),
                             start_level, end_level)
          THEN <<Head(ids)>> ELSE <<>>)
         \o FilterLevel(d, Tail(ids), start_level, end_level)

RECURSIVE LevelRangeOver(_, _, _, _, _)
LevelRangeOver(d, dept, levels, start_level, end_level) ==
    IF levels = <<>> THEN <<>>
    ELSE FilterLevel(d, Get(d.courses_by_level, <<dept, Head(levels)>>, <<>>),
                     start_level, end_level)
         \o LevelRangeOver(d, dept, Tail(levels), start_level, end_level)

\* the course ids, in order, that get_courses_by_level_range returns
get_courses_by_level_range(d, dept, start_level, end_level) ==
    LevelRangeOver(d, dept,
                   RangeBy10(FloorDiv10(start_level) * 10, (FloorDiv10(end_level) + 1) * 10),
                   start_level, end_level)

\* the course ids, in order, that get_courses_by_term returns: an exact key lookup
get_courses_by_term(d, term) ==
    SelectSeq(Get(d.courses_by_term, term, <<>>), LAMBDA cid : cid \in DOMAIN d.course_dict)


-----------------------------------------------------------------------------
(* QueryProcessor *)

\* a pattern with its confidence, and the same for a plain word or phrase
PC(pattern, conf) == [p |-> pattern, c |-> conf]
PL(text, conf) == PC(Lit(text), conf)

\* the largest confidence among the patterns of a table found in s, 0 if none
BestConf(table, s) ==
    SetMax({0} \cup {table[n].c : n \in {x \in 1..Len(table) : Search(table[x].p, s)}})

AnyFound(table, s) == \E n \in 1..Len(table) : Search(table[n].p, s)

followup_indicators ==
    << PC(BWords(<<"it">>), 6000), PC(BWords(<<"that">>), 7000),
       PC(BWords(<<"those">>), 7500), PC(BWords(<<"this">>), 6500),
       PC(BWords(<<"the course">>), 8000), PC(BWords(<<"compare">>), 7000),
       PC(BWords(<<"between">>), 6000), PC(BWords(<<"instead">>), 7500),
       PC(Cat(<<BOL, Lit("what about")>>), 9000),
       PC(Cat(<<BOL, Lit("how about")>>), 9000),
       PC(BWords(<<"also">>), 6000), PC(BWords(<<"too">>), 6000),
       PC(BWords(<<"another">>), 7000), PC(BWords(<<"similar">>), 6500),
       PC(Cat(<<WB, Lit("alternative"), Opt(Lit("s")), WB>>), 8000) >>

\* a chat message, and the text of the last one
Msg(role, content) == [role |-> role, content |-> content]
LastContent(chat_history) == StrLower(chat_history[Len(chat_history)].content)

\* a course of the last assistant message is named again in the query
MentionsLastCourse(query_lower, chat_history) ==
    /\ Len(chat_history) >= 2
    /\ chat_history[Len(chat_history)].role = "assistant"
    /\ With(CodeFindAll(LastContent(chat_history), 1), LAMBDA found :
           \E n \in 1..Len(found) :
               Search(Cat(<<Lit(found[n].dept), Star("space"), Lit(found[n].num)>>),
                      query_lower))

_is_followup_question(query_lower, chat_history) ==
    With(WordCount(query_lower), LAMBDA words :
    With(MentionsLastCourse(query_lower, chat_history), LAMBDA mentions :
    With(BestConf(followup_indicators, query_lower), LAMBDA c1 :
    With(IF words <= 5 THEN Max2(c1, 5000 + 1000 * (5 - words)) ELSE c1, LAMBDA c2 :
        [is_followup |-> AnyFound(followup_indicators, query_lower) \/ words <= 5 \/ mentions,
         confidence |-> IF mentions THEN Max2(c2, 8500) ELSE c2]))))

intent_patterns ==
    << [intent |-> "course_recommendation",
        patterns |-> << PL("recommend", 9000), PL("suggest", 9000), PL("best", 8000),
                        PL("good", 7000), PL("appropriate", 7000), PL("what should", 8000),
                        PC(Cat(<<Lit("which "), Words(<<"course", "class">>)>>), 8500),
                        PL("advise", 9000), PL("easy", 6000), PL("take", 7500),
                        PL("options", 7000), PL("alternatives", 7000), PL("chillest", 8500),
                        PL("manageable", 7500), PL("interesting", 6000), PL("fun", 6000) >>],
       [intent |-> "course_information",
        patterns |-> << PL("what is", 7000), PL("tell me about", 8500), PL("details", 8000),
                        PL("information about", 9000), PL("describe", 8500),
                        PL("explain", 8000), PL("learn about", 7500), PL("syllabus", 9000),
                        PL("professor", 7000), PL("instructor", 7000), PL("taught by", 8000),
                        PL("reading", 6000), PL("topics", 7000), PL("assignments", 8000),
                        PL("prerequisites", 8000) >>],
       [intent |-> "requirements",
        patterns |-> << PL("requirement", 9000), PL("required", 9000),
                        PL("need to take", 8500), PL("have to take", 8500),
                        PL("fulfill", 8000), PL("satisfy", 8000), PL("complete", 7000),
                        PL("concentration", 7500), PL("major", 7500), PL("minor", 7500),
                        PL("degree", 8000), PL("program", 7000),
                        PC(Cat(<<Lit("grad"), Words(<<"uate", "uation">>)>>), 8000),
                        PL("credit", 7500) >>],
       [intent |-> "comparison",
        patterns |-> << PL("compare", 9000), PL("difference", 8500), PL("better", 8000),
                        PL("easier", 8000), PL("harder", 8000), PL("versus", 9000),
                        PL("vs", 9000), PL("or", 6000), PL("similar", 7000),
                        PL("between", 8000) >>],
       [intent |-> "schedule_planning",
        patterns |-> << PL("schedule", 8500), PL("timetable", 8500), PL("conflict", 8000),
                        PL("overlapping", 8000), PL("time", 6000), PL("semester plan", 9000),
                        PL("course load", 8500), PL("workload", 8000), PL("balance", 7000),
                        PL("fit", 6000) >>] >>

\* intent_scores after the pattern loop: the intents with a match, in the
\* order of intent_patterns, each with its best confidence
RECURSIVE IntentScores(_, _)
IntentScores(table, query_lower) ==
    IF table = <<>> THEN <<>>
    ELSE LET rest == IntentScores(Tail(table), query_lower)
             first == Head(table)
         IN  IF AnyFound(first.patterns, query_lower)
             THEN <<[intent |-> first.intent,
                     score |-> BestConf(first.patterns, query_lower)]>> \o rest
             ELSE rest

\* the boost a course code gives to an intent that already has a score (0.2)
CodeBoost(intent) == IF intent = "course_recommendation" THEN 2000 ELSE 0

\* max(intent_scores.items(), key=score): the first entry with the top score
FirstBest(scores) ==
    scores[SetMin({n \in 1..Len(scores) : \A m \in 1..Len(scores) : scores[m].score <= scores[n].score})]

\* intent_scores after the course code rule
BoostedScores(base, coded) ==
    IF ~coded THEN base
    ELSE IF base = <<>> THEN <<[intent |-> "course_information", score |-> 7000]>>
    ELSE [n \in 1..Len(base) |-> [base[n] EXCEPT !.score = @ + CodeBoost(base[n].intent)]]

_extract_intent(query_lower) ==
    With(BoostedScores(IntentScores(intent_patterns, query_lower), CodeSearch(query_lower).ok),
         LAMBDA scores :
            IF scores = <<>> THEN [intent |-> "general_information", confidence |-> 3000]
            ELSE With(FirstBest(scores), LAMBDA best :
                      [intent |-> best.intent, confidence |-> best.score]))

\* a word-bounded alternation that stands for one value
PV(ws, value, conf) == [p |-> BWords(ws), v |-> value, c |-> conf]

dept_patterns ==
    << PV(<<"math", "mathematics">>, "MATH", 9000),
       PV(<<"compsci", "cs", "computer science">>, "COMPSCI", 9000),
       PV(<<"econ", "economics">>, "ECON", 9000),
       PV(<<"gov", "government">>, "GOV", 9000),
       PV(<<"physics">>, "PHYSICS", 9000),
       PV(<<"chem", "chemistry">>, "CHEM", 9000),
       PV(<<"hist", "history">>, "HIST", 9000),
       PV(<<"eng", "english">>, "ENG", 8500),
       PV(<<"phil", "philosophy">>, "PHIL", 9000),
       PV(<<"stats", "statistics">>, "STAT", 9000),
       PV(<<"bio", "biology">>, "BIO", 9000),
       PV(<<"psych", "psychology">>, "PSY", 9000),
       PV(<<"sociol", "sociology">>, "SOC", 9000),
       PV(<<"anthro", "anthropology">>, "ANTHRO", 9000),
       PV(<<"astro", "astronomy">>, "ASTRON", 9000),
       PV(<<"applied math", "applied mathematics">>, "APMTH", 9000),
       PV(<<"music">>, "MUSIC", 9000),
       PV(<<"art", "art history">>, "ART", 8500),
       PV(<<"theater", "theatre">>, "TDM", 8000),
       PV(<<"language">>, "LANG", 7000),
       PV(<<"french">>, "FRENCH", 9000),
       PV(<<"spanish">>, "SPANISH", 9000),
       PV(<<"german">>, "GERMAN", 9000),
       PV(<<"chinese">>, "CHINESE", 9000),
       PV(<<"japanese">>, "JAPANESE", 9000),
       PV(<<"classics">>, "CLASSIC", 9000),
       PV(<<"neuro", "neuroscience">>, "NEURO", 9000),
       PV(<<"earth", "earth science">>, "EPS", 8500),
       PV(<<"engineering">>, "ENG", 7000),
       PV(<<"education">>, "EDU", 8500) >>

\* the values of the patterns of a table found in s, in table order
FoundValues(table, s) ==
    With(SelectSeq(table, LAMBDA entry : Search(entry.p, s)), LAMBDA found :
        [n \in 1..Len(found) |-> found[n].v])

\* re.findall(r'\b([A-Z]{2,})\b', query): the capitalised abbreviations
RECURSIVE AbbrevsFrom(_, _)
AbbrevsFrom(query, i) ==
    IF i > Len(query) THEN <<>>
    ELSE LET e == RunEnd(query, i, "upper")
         IN  IF AtWordBoundary(query, i) /\ e - i >= 2 /\ AtWordBoundary(query, e)
             THEN <<SubSeq(query, i, e - 1)>> \o AbbrevsFrom(query, e)
             ELSE AbbrevsFrom(query, i + 1)

\* the abbreviation loop: an abbreviation not yet listed is appended
RECURSIVE AddAbbrevs(_, _)
AddAbbrevs(acc, abbrevs) ==
    IF abbrevs = <<>> THEN acc
    ELSE IF Head(abbrevs) \in SeqToSet(acc.departments) THEN AddAbbrevs(acc, Tail(abbrevs))
    ELSE AddAbbrevs([departments |-> Append(acc.departments, Head(abbrevs)),
                     confidence |-> Max2(acc.confidence, 8000)], Tail(abbrevs))

_extract_departments(query_lower, query) ==
    With(AddAbbrevs([departments |-> FoundValues(dept_patterns, query_lower),
                     confidence |-> BestConf(dept_patterns, query_lower)],
                    AbbrevsFrom(query, 1)),
         LAMBDA all :
            [departments |-> all.departments,
             confidence |-> IF Len(all.departments) > 1 THEN Max2(6000, all.confidence - 1000)
                            ELSE IF Len(all.departments) = 0 THEN 0
                            ELSE all.confidence])

\* conf * 0.9 and conf * 0.8, and so on: a confidence times a percentage
Scaled(conf, percent) == (conf * percent) \div 100

\* one more level range, with the confidence it brings
AddRange(acc, lo, hi, conf) ==
    [ranges |-> Append(acc.ranges, <<lo, hi>>), confidence |-> Max2(acc.confidence, conf)]

\* the body of the decade loop for one match
DecadeStep(acc, base, conf, has_level) ==
    LET base_level == (base \div 10) * 10
    IN  IF has_level
        THEN IF base % 100 = 0 THEN AddRange(acc, base, base + 99, conf)
             ELSE IF (base \div 10) % 10 # 0 THEN AddRange(acc, base_level, base_level + 9, conf)
             ELSE AddRange(acc, base, base + 9, Scaled(conf, 90))
        ELSE IF base % 10 = 0 THEN AddRange(acc, base, base + 9, conf)
             ELSE AddRange(acc, base_level, base_level + 9, Scaled(conf, 80))

RECURSIVE DecadeMatches(_, _, _, _)
DecadeMatches(acc, matches, conf, has_level) ==
    IF matches = <<>> THEN acc
    ELSE DecadeMatches(DecadeStep(acc, StrToInt(Head(matches).text), conf, has_level),
                       Tail(matches), conf, has_level)

\* (\d+)s\b   (\d+)0s\b   (\d+)-level   level (\d+)   (\d+) level
decade_patterns ==
    << [pre |-> Empty, post |-> Cat(<<Lit("s"), WB>>), c |-> 9000, has_level |-> FALSE],
       [pre |-> Empty, post |-> Cat(<<Lit("0s"), WB>>), c |-> 9000, has_level |-> FALSE],
       [pre |-> Empty, post |-> Lit("-level"), c |-> 9000, has_level |-> TRUE],
       [pre |-> Lit("level "), post |-> Empty, c |-> 8000, has_level |-> TRUE],
       [pre |-> Empty, post |-> Lit(" level"), c |-> 8000, has_level |-> TRUE] >>

RECURSIVE DecadeLoop(_, _, _)
DecadeLoop(acc, table, query_lower) ==
    IF table = <<>> THEN acc
    ELSE DecadeLoop(DecadeMatches(acc,
                                  CapFindAll(Head(table).pre, "int", Head(table).post, query_lower),
                                  Head(table).c, Head(table).has_level),
                    Tail(table), query_lower)

\* (\d+)[\s-]+to[\s-]+(\d+)   (\d+)[\s-]+through[\s-]+(\d+)
\* (\d+)[\s-]*-[\s-]*(\d+)    between (\d+) and (\d+)
range_patterns ==
    << [pre |-> Empty, mid |-> Cat(<<Plus("spacedash"), Lit("to"), Plus("spacedash")>>)],
       [pre |-> Empty, mid |-> Cat(<<Plus("spacedash"), Lit("through"), Plus("spacedash")>>)],
       [pre |-> Empty, mid |-> Cat(<<Star("spacedash"), Lit("-"), Star("spacedash")>>)],
       [pre |-> Lit("between "), mid |-> Lit(" and ")] >>

RECURSIVE RangeMatches(_, _)
RangeMatches(acc, matches) ==
    IF matches = <<>> THEN acc
    ELSE RangeMatches(AddRange(acc, StrToInt(Head(matches).lo), StrToInt(Head(matches).hi), 9500),
                      Tail(matches))

RECURSIVE RangeLoop(_, _, _)
RangeLoop(acc, table, query_lower) ==
    IF table = <<>> THEN acc
    ELSE RangeLoop(RangeMatches(acc, RangeFindAll(Head(table).pre, Head(table).mid, query_lower)),
                   Tail(table), query_lower)

level_indicators == <<"level", "levels", "hundred", "course level">>

\* the number stands near a word that speaks of levels
IsLevel(context_before, context_after) ==
    \E n \in 1..Len(level_indicators) :
        \/ StrContains(LastChars(context_before, 15), level_indicators[n])
        \/ StrContains(FirstChars(context_after, 15), level_indicators[n])

\* the body of the single-number loop for one match of \b(\d+)\b
NumberStep(acc, m, query_lower) ==
    With(StrToInt(m.text), LAMBDA num :
        IF \E n \in 1..Len(acc.ranges) : acc.ranges[n][1] <= num /\ num <= acc.ranges[n][2]
        THEN acc
        ELSE IF ~(10 <= num /\ num <= 999) THEN acc
        ELSE IF ~IsLevel(StrStrip(SubSeq(query_lower, 1, m.start - 1)),
                         StrStrip(SubSeq(query_lower, m.end, Len(query_lower))))
             THEN AddRange(acc, num, num, 4000)
        ELSE IF num % 100 = 0 THEN AddRange(acc, num, num + 99, 8000)
        ELSE IF num % 10 = 0 THEN AddRange(acc, num, num + 9, 7500)
        ELSE AddRange(acc, num, num, 5000))

RECURSIVE NumberLoop(_, _, _)
NumberLoop(acc, matches, query_lower) ==
    IF matches = <<>> THEN acc
    ELSE NumberLoop(NumberStep(acc, Head(matches), query_lower), Tail(matches), query_lower)

_extract_course_levels(query_lower) ==
    With(NumberLoop(RangeLoop(DecadeLoop([ranges |-> <<>>, confidence |-> 0],
                                         decade_patterns, query_lower),
                              range_patterns, query_lower),
                    CapFindAll(WB, "int", WB, query_lower), query_lower),
         LAMBDA all : [course_levels |-> all.ranges, confidence |-> all.confidence])

\* the codes f"{DEPT} {num}" of the matches of the code pattern, in order
CodesOf(matches) == [n \in 1..Len(matches) |-> StrUpper(matches[n].dept) \o " " \o matches[n].num]

\* the loop over one detected department: {dept.lower()}\s*(\d+)
RECURSIVE DeptCodeMatches(_, _, _)
DeptCodeMatches(acc, dept, matches) ==
    IF matches = <<>> THEN acc
    ELSE LET course_code == dept \o " " \o Head(matches).text
         IN  IF course_code \in SeqToSet(acc.codes)
             THEN DeptCodeMatches(acc, dept, Tail(matches))
             ELSE DeptCodeMatches([codes |-> Append(acc.codes, course_code),
                                   confidence |-> Max2(acc.confidence, 8500)],
                                  dept, Tail(matches))

RECURSIVE DeptCodeLoop(_, _, _)
DeptCodeLoop(acc, depts, query_lower) ==
    IF depts = <<>> THEN acc
    ELSE DeptCodeLoop(
            DeptCodeMatches(acc, Head(depts),
                CapFindAll(Cat(<<Lit(StrLower(Head(depts))), Star("space")>>), "int", Empty,
                           query_lower)),
            Tail(depts), query_lower)

\* the hash seeds of the interpreter process that the model tells apart
HashSeeds == {0, 1}

\* list(set(items)): the distinct items in the order the set iterates them,
\* which for strings follows their hashes, seeded anew in every process
ListOfSet(items, hash_seed) ==
    IF hash_seed = 0 THEN Dedup(items) ELSE Reverse(Dedup(items))

\* the codes of the general pattern, with the confidence they bring
GeneralCodes(codes) == [codes |-> codes, confidence |-> IF codes = <<>> THEN 0 ELSE 9000]

_extract_course_codes(query_lower, query, hash_seed) ==
    With(DeptCodeLoop(GeneralCodes(CodesOf(CodeFindAll(query, 2))),
                      _extract_departments(query_lower, query).departments, query_lower),
         LAMBDA all :
            [course_codes |-> ListOfSet(all.codes, hash_seed), confidence |-> all.confidence])

term_patterns ==
    << PV(<<"fall">>, "Fall", 9000), PV(<<"spring">>, "Spring", 9000),
       PV(<<"summer">>, "Summer", 9000), PV(<<"winter">>, "Winter", 9000),
       PV(<<"next semester">>, "Spring", 8000), PV(<<"this semester">>, "Fall", 7500),
       PV(<<"current semester">>, "Fall", 7500), PV(<<"next term">>, "Spring", 7000),
       PV(<<"this term">>, "Fall", 7000), PV(<<"next year">>, "Fall", 6000),
       PV(<<"upcoming">>, "Spring", 6000) >>

\* re.findall(r'\b(20\d{2})\b', query_lower)
RECURSIVE YearsFrom(_, _)
YearsFrom(s, i) ==
    IF i + 3 > Len(s) THEN <<>>
    ELSE IF /\ AtWordBoundary(s, i) /\ MatchesAt(s, "20", i)
            /\ IsDigit(CharAt(s, i + 2)) /\ IsDigit(CharAt(s, i + 3))
            /\ AtWordBoundary(s, i + 4)
         THEN <<SubSeq(s, i, i + 3)>> \o YearsFrom(s, i + 4)
         ELSE YearsFrom(s, i + 1)

\* the matches of \b([FS])(\d{2})\b as f"{term} 20{yr}"
RECURSIVE ShortFormsFrom(_, _)
ShortFormsFrom(s, i) ==
    IF i + 2 > Len(s) THEN <<>>
    ELSE IF /\ AtWordBoundary(s, i) /\ CharAt(s, i) \in {"F", "S"}
            /\ IsDigit(CharAt(s, i + 1)) /\ IsDigit(CharAt(s, i + 2))
            /\ AtWordBoundary(s, i + 3)
         THEN <<(IF CharAt(s, i) = "F" THEN "Fall" ELSE "Spring") \o " 20" \o SubSeq(s, i + 1, i + 2)>>
              \o ShortFormsFrom(s, i + 3)
         ELSE ShortFormsFrom(s, i + 1)

\* f"{term} {year}" for every term and, inside, every year
RECURSIVE CombineTerms(_, _)
CombineTerms(terms, years) ==
    IF terms = <<>> THEN <<>>
    ELSE [n \in 1..Len(years) |-> Head(terms) \o " " \o years[n]] \o CombineTerms(Tail(terms), years)

\* the end of _extract_terms, once the loops have run
TermsFound(terms, confidence, years, short) ==
    IF terms # <<>> /\ years # <<>>
    THEN [terms |-> CombineTerms(terms, years), confidence |-> Min2(confidence, 9000)]
    ELSE [terms |-> terms \o short,
          confidence |-> IF short = <<>> THEN confidence ELSE Max2(confidence, 8500)]

_extract_terms(query_lower) ==
    TermsFound(FoundValues(term_patterns, query_lower), BestConf(term_patterns, query_lower),
               YearsFrom(query_lower, 1), ShortFormsFrom(query_lower, 1))

\* float(text) in hundredths, for text of the form \d+(\.\d+)?
ParseFloat(text) ==
    With(RunEnd(text, 1, "digit"), LAMBDA e :
        StrToInt(SubSeq(text, 1, e - 1)) * 100
            + StrToInt(SubSeq(SubSeq(text, e + 1, Len(text)) \o "00", 1, 2)))

\* a pattern with one captured number and its confidence
PN(pre, post, conf) == [pre |-> pre, post |-> post, c |-> conf]

\* the hour patterns a query over ASCII text can meet (the one led by the
\* less-or-equal sign is out of its reach)
hour_patterns ==
    << PN(Cat(<<Words(<<"less than", "no more than", "maximum", "max">>), Lit(" ")>>),
          Lit(" hours"), 9000),
       PN(Lit("under "), Lit(" hours"), 8500),
       PN(Empty, Lit(" hours or less"), 8500),
       PN(Lit("not more than "), Lit(" hours"), 8500),
       PN(Lit("at most "), Lit(" hours"), 8500),
       PN(Lit("fewer than "), Lit(" hours"), 8500),
       PN(Lit("< "), Lit(" hours"), 9000) >>

RatingOrScore == Words(<<"rating", "score">>)

\* likewise the score patterns, without the one led by the greater-or-equal sign
score_patterns ==
    << PN(Cat(<<Words(<<"at least", "minimum">>), Lit(" ")>>),
          Cat(<<Lit(" "), RatingOrScore>>), 9000),
       PN(Cat(<<RatingOrScore, Lit(" "), Opt(Lit("of ")), Opt(Lit(" at least")), Lit(" ")>>),
          Empty, 8000),
       PN(Cat(<<RatingOrScore, Lit(" "), Words(<<"above", "higher than">>), Lit(" ")>>),
          Empty, 8500),
       PN(Lit("better than "), Cat(<<Lit(" "), RatingOrScore>>), 8000),
       PN(Lit("> "), Cat(<<Lit(" "), RatingOrScore>>), 9000) >>

\* the first pattern of the table that matches: its number and confidence
NumberAt(table, kind, s, matching) ==
    IF matching = {} THEN [ok |-> FALSE, text |-> "", c |-> 0]
    ELSE With(SetMin(matching), LAMBDA i :
            [ok |-> TRUE, text |-> CapSearch(table[i].pre, kind, table[i].post, s).text,
             c |-> table[i].c])

FirstNumber(table, kind, s) ==
    NumberAt(table, kind, s,
             {i \in 1..Len(table) : CapSearch(table[i].pre, kind, table[i].post, s).ok})

workload_indicators ==
    << PC(Words(<<"easy", "easiest", "light workload", "manageable">>), 8000),
       PC(Cat(<<Lit("not too "), Words(<<"much", "hard", "difficult">>)>>), 7500),
       PL("don't want to spend too much time", 7500),
       PL("low commitment", 7000),
       PL("less work", 7000),
       PL("minimal effort", 7500),
       PC(Words(<<"chill", "chillest">>), 8500) >>

score_indicators ==
    << PC(Cat(<<Words(<<"good", "great", "excellent", "high">>), Lit(" "),
                Words(<<"rating", "score", "reviews">>)>>), 8000),
       PL("well-rated", 8000), PL("highly-rated", 8500), PL("top-rated", 8500),
       PL("good q score", 8500), PL("people like", 7000), PL("well-reviewed", 8000) >>

\* the confidence of the first pattern of the table found in s, 0 if none
RECURSIVE FirstConf(_, _)
FirstConf(table, s) ==
    IF table = <<>> THEN 0
    ELSE IF Search(Head(table).p, s) THEN Head(table).c
    ELSE FirstConf(Tail(table), s)

\* the default thresholds: 10.0 hours for "easy", 4.0 for "good"
EasyHours == 1000
GoodScore == 400

\* the confidence after an indicator block: raised by the first indicator found
IndicatorConf(conf, applies, table, s) ==
    IF applies THEN Max2(conf, FirstConf(table, s)) ELSE conf

\* the end of _extract_constraints: hours and score are the numbers found,
\* easy and good tell whether the default thresholds apply
ConstraintsFound(hours, score, easy, good, query_lower) ==
    [constraints |->
        [max_hours |-> IF hours.ok THEN Num(StrToInt(hours.text) * 100)
                       ELSE IF easy THEN Num(EasyHours) ELSE NoneNum,
         min_score |-> IF score.ok THEN Num(ParseFloat(score.text))
                       ELSE IF good THEN Num(GoodScore) ELSE NoneNum],
     confidence |->
        IndicatorConf(IndicatorConf(Max2(hours.c, score.c), easy, workload_indicators,
                                    query_lower),
                      good, score_indicators, query_lower)]

_extract_constraints(query_lower) ==
    With(FirstNumber(hour_patterns, "int", query_lower), LAMBDA hours :
    With(FirstNumber(score_patterns, "float", query_lower), LAMBDA score :
        ConstraintsFound(hours, score,
                         ~hours.ok /\ AnyFound(workload_indicators, query_lower),
                         ~score.ok /\ AnyFound(score_indicators, query_lower),
                         query_lower)))

\* the codes the query refers to: its own, else those of the last response
ReferencedCodes(explicit, implicit, pronoun) ==
    IF explicit # <<>> THEN explicit
    ELSE IF implicit # <<>> THEN implicit
    ELSE IF pronoun /\ implicit # <<>> THEN <<implicit[1]>>
    ELSE <<>>

_extract_referenced_courses(query_lower, chat_history) ==
    ReferencedCodes(
        CodesOf(CodeFindAll(query_lower, 1)),
        CodesOf(CodeFindAll(IF Len(chat_history) >= 2 THEN LastContent(chat_history) ELSE "", 1)),
        Search(BWords(<<"it", "this", "that", "this course", "that course">>), query_lower))

\* a preference with its patterns, tried in order
Pref(name, patterns) == [v |-> name, patterns |-> patterns]
\* \b(w1|w2) (v1|v2)\b
BPair(ws, vs) == Cat(<<WB, Words(ws), Lit(" "), Words(vs), WB>>)
\* lead (w1|w2)
Led(lead, ws) == Cat(<<Lit(lead), Words(ws)>>)

preference_patterns ==
    << Pref("easy",
            << PC(BWords(<<"easy", "easiest", "simple", "straightforward">>), 9000),
               PC(BWords(<<"light", "manageable", "reasonable", "chill", "chillest">>), 8500),
               PC(BWords(<<"gentle", "introductory", "beginner", "basic">>), 8000),
               PC(Led("not too ", <<"hard", "difficult", "challenging", "demanding", "heavy">>), 7500),
               PC(Led("low ", <<"workload", "time commitment", "effort">>), 8000) >>),
       Pref("hard",
            << PC(BWords(<<"hard", "hardest", "difficult", "challenging">>), 9000),
               PC(BWords(<<"rigorous", "demanding", "advanced", "tough", "intense">>), 8500),
               PC(BWords(<<"comprehensive", "thorough", "deep", "complex">>), 8000),
               PC(Led("not too ", <<"easy", "simple", "basic">>), 7500),
               PC(Led("high ", <<"difficulty", "challenge">>), 8000) >>),
       Pref("interesting",
            << PC(BWords(<<"interesting", "engaging", "fun", "enjoyable", "exciting">>), 8500),
               PC(BWords(<<"fascinating", "captivating", "inspiring", "stimulating">>), 8000),
               PC(Led("not ", <<"boring", "dull", "dry">>), 7500) >>),
       Pref("practical",
            << PC(BWords(<<"practical", "applied", "useful", "real-world", "hands-on">>), 8500),
               PC(BWords(<<"applicable", "relevant", "industry", "career", "skill">>), 8000),
               PC(Led("not ", <<"theoretical", "abstract">>), 7500) >>),
       Pref("theoretical",
            << PC(BWords(<<"theoretical", "theory", "conceptual", "abstract", "fundamental">>), 8500),
               PC(BWords(<<"philosophical", "foundational", "academic", "intellectual">>), 8000),
               PC(Led("not ", <<"practical", "applied">>), 7500) >>),
       Pref("lecture",
            << PC(BWords(<<"lecture", "lectures", "traditional">>), 8500),
               PC(Led("professor ", <<"talks", "teaching", "explaining">>), 7500) >>),
       Pref("discussion",
            << PC(BWords(<<"discussion", "seminar", "interactive", "participation">>), 8500),
               PC(BWords(<<"debate", "conversation", "dialogue", "talk">>), 7500) >>),
       Pref("project",
            << PC(BWords(<<"project", "projects", "hands-on", "practical", "lab", "labs">>), 8500),
               PC(BWords(<<"building", "creating", "making", "coding", "programming">>), 8000),
               PC(BWords(<<"application", "applied", "implementing">>), 7500) >>),
       Pref("fair_grading",
            << PC(BPair(<<"fair", "consistent", "transparent", "reasonable">>,
                        <<"grading", "assessment">>), 8500),
               PL("clear expectations", 8000),
               PC(Cat(<<Led("not ", <<"harsh", "strict", "arbitrary">>), Lit(" grading")>>), 7500) >>),
       Pref("easy_grading",
            << PC(BPair(<<"easy", "generous", "lenient">>, <<"grading", "assessment">>), 8500),
               PL("grade inflation", 8000),
               PC(Led("high ", <<"grades", "scores">>), 7500),
               PC(Led("easy ", <<"A", "B">>), 8500) >>) >>

\* the preferences with a matching pattern, each with the confidence of its
\* first matching pattern
RECURSIVE FoundPrefs(_, _)
FoundPrefs(table, s) ==
    IF table = <<>> THEN <<>>
    ELSE IF AnyFound(Head(table).patterns, s)
         THEN <<[v |-> Head(table).v, c |-> FirstConf(Head(table).patterns, s)]>>
              \o FoundPrefs(Tail(table), s)
         ELSE FoundPrefs(Tail(table), s)

subject_interest_patterns ==
    << PL("interested in ", 8000), PL("like ", 7000), PL("enjoy ", 7500),
       PL("passion for ", 8500), PL("curious about ", 7500) >>

\* the interest a lead-in match m names, when at most three words long
InterestOf(m, subject, conf) ==
    IF m.ok /\ WordCount(subject) <= 3
    THEN <<[v |-> "interest:" \o subject, c |-> conf]>> ELSE <<>>

\* the interests named after one of the lead-ins
RECURSIVE FoundInterests(_, _)
FoundInterests(table, s) ==
    IF table = <<>> THEN <<>>
    ELSE With(CapSearch(Head(table).p, "words", Empty, s), LAMBDA m :
              InterestOf(m, StrStrip(m.text), Head(table).c))
         \o FoundInterests(Tail(table), s)

_extract_preferences(query_lower) ==
    With(FoundPrefs(preference_patterns, query_lower)
            \o FoundInterests(subject_interest_patterns, query_lower),
         LAMBDA found :
            [preferences |-> [n \in 1..Len(found) |-> found[n].v],
             confidence |-> SetMax({0} \cup {found[n].c : n \in 1..Len(found)})])

\* a value with the patterns that select it
Sel(value, patterns) == [v |-> value, ps |-> patterns]

\* the value of the first entry of the table with a pattern found in s, else "None"
RECURSIVE FirstSelected(_, _)
FirstSelected(table, s) ==
    IF table = <<>> THEN "None"
    ELSE IF SearchAny(Head(table).ps, s) THEN Head(table).v
    ELSE FirstSelected(Tail(table), s)

difficulty_patterns ==
    << Sel("easy", << BWords(<<"easy", "easiest", "simple", "straightforward", "light",
                               "manageable", "chill", "chillest">>),
                      Led("not too ", <<"hard", "difficult", "challenging", "demanding">>),
                      Led("low ", <<"workload", "time commitment", "effort">>) >>),
       Sel("moderate", << BWords(<<"moderate", "balanced", "medium", "intermediate", "reasonable">>),
                          Led("not too ", <<"easy", "hard">>),
                          Lit("middle ground"),
                          Led("balanced ", <<"workload", "difficulty">>) >>),
       Sel("hard", << BWords(<<"hard", "hardest", "difficult", "challenging", "rigorous",
                               "demanding", "advanced", "tough", "intense">>),
                      Led("not too ", <<"easy", "simple">>),
                      Led("high ", <<"difficulty", "challenge", "level">>) >>) >>

interest_patterns ==
    << Sel("high", << BWords(<<"interesting", "fascinating", "captivating", "exciting",
                               "engaging", "fun">>),
                      Led("really ", <<"like", "enjoy", "love">>),
                      Lit("passion for"), Lit("favorite") >>),
       Sel("medium", << BWords(<<"somewhat interesting", "moderately engaging">>),
                        Led("kind of ", <<"like", "enjoy">>),
                        Led("might ", <<"like", "enjoy">>) >>),
       Sel("low", << Led("not ", <<"boring", "dull", "dry">>),
                     Led("don't ", <<"hate", "dislike">>),
                     Lit("tolerable"), Lit("get through") >>) >>

relevance_patterns ==
    << Sel("career", << BWords(<<"career", "job", "profession", "industry", "work", "employment">>),
                        Led("future ", <<"job", "work", "career">>),
                        Lit("after graduation"), Lit("professional") >>),
       Sel("personal", << BWords(<<"interest", "hobby", "personal", "passion", "curious", "enjoy">>),
                          Lit("for fun"), Lit("personally"), Lit("just for me") >>),
       Sel("degree", << BWords(<<"requirement", "requirements", "required", "concentration",
                                 "major", "minor", "degree", "graduate", "graduation">>),
                        Led("need for ", <<"major", "degree", "graduation">>),
                        Lit("have to take"), Lit("fulfill") >>) >>

format_patterns ==
    << Sel("lecture", << BWords(<<"lecture", "lectures", "traditional", "instructor-led">>),
                         Led("professor ", <<"talks", "teaching", "explaining">>),
                         Lit("listening") >>),
       Sel("seminar", << BWords(<<"discussion", "seminar", "interactive", "participation",
                                  "small class">>),
                         BWords(<<"debate", "conversation", "dialogue", "talk">>),
                         Lit("discussing") >>),
       Sel("project-based", << BWords(<<"project", "projects", "hands-on", "practical", "lab",
                                        "labs", "workshop">>),
                               BWords(<<"building", "creating", "making", "coding", "programming">>),
                               BWords(<<"application", "applied", "implementing">>),
                               Lit("creating") >>) >>

_extract_semantic_aspects(query_lower) ==
    [difficulty |-> FirstSelected(difficulty_patterns, query_lower),
     interest_level |-> FirstSelected(interest_patterns, query_lower),
     relevance |-> FirstSelected(relevance_patterns, query_lower),
     format |-> FirstSelected(format_patterns, query_lower)]

\* plain words and phrases as patterns
Lits(ws) == [n \in 1..Len(ws) |-> Lit(ws[n])]

implicit_patterns ==
    << Sel("high_prestige", Lits(<<"best", "top", "prestigious", "renowned", "famous",
                                   "well-known", "popular">>)),
       Sel("small_class", Lits(<<"small", "intimate", "not too big", "fewer students",
                                 "individual attention">>)),
       Sel("good_professor", Lits(<<"good professor", "great teacher", "excellent instructor",
                                    "engaging faculty", "best taught">>)),
       Sel("minimal_writing", Lits(<<"not much writing", "minimal papers", "few essays",
                                     "no papers", "not essay-based">>)),
       Sel("minimal_reading", Lits(<<"not much reading", "light reading", "few readings",
                                     "minimal reading", "not reading-heavy">>)),
       Sel("social", Lits(<<"friends", "social", "collaborate", "group work", "meet people",
                            "team">>)) >>

\* the values of all entries of the table with a pattern found in s
RECURSIVE AllSelected(_, _)
AllSelected(table, s) ==
    IF table = <<>> THEN <<>>
    ELSE IF SearchAny(Head(table).ps, s) THEN <<Head(table).v>> \o AllSelected(Tail(table), s)
    ELSE AllSelected(Tail(table), s)

_extract_implicit_preferences(query_lower) == AllSelected(implicit_patterns, query_lower)

\* the notes of a list whose condition holds, in order
RECURSIVE Notes(_)
Notes(items) ==
    IF items = <<>> THEN <<>>
    ELSE IF Head(items)[1] THEN <<Head(items)[2]>> \o Notes(Tail(items))
    ELSE Notes(Tail(items))

\* the thresholds of the self-reflection: 0.7 and 0.8 for the confidences,
\* 5 hours and a 4.5 rating for the constraints
_perform_self_reflection(query_info, confidence) ==
    LET max_hours == query_info.constraints.max_hours
        min_score == query_info.constraints.min_score
        prefs == SeqToSet(query_info.preferences)
    IN  [missing_information |-> Notes(<<
            <<query_info.departments = <<>> /\ query_info.course_codes = <<>>,
              "No department or course specified">>,
            <<query_info.course_levels = <<>> /\ query_info.course_codes = <<>>,
              "No course level specified">>,
            <<query_info.terms = <<>>, "No term/semester specified">> >>),
         ambiguities |-> Notes(<<
            <<Len(query_info.departments) > 1, "Multiple departments specified">>,
            <<Len(query_info.course_levels) > 1, "Multiple course levels specified">>,
            <<"easy" \in prefs /\ "hard" \in prefs, "Conflicting difficulty preferences">>,
            <<"practical" \in prefs /\ "theoretical" \in prefs, "Conflicting style preferences">> >>),
         verification_needed |-> Notes(<<
            <<confidence.intent < 7000, "Intent is unclear">>,
            <<query_info.is_followup /\ query_info.referenced_courses = <<>>
                  /\ confidence.is_followup < 8000,
              "Follow-up reference is unclear">>,
            <<IsNum(max_hours) /\ max_hours.v < 500, "Very low max hours constraint">>,
            <<IsNum(min_score) /\ min_score.v > 450, "Very high minimum score constraint">> >>)]

\* last_query_info: None, or the query_info of the previous query
NoQueryInfo == [some |-> FALSE]
SomeQueryInfo(query_info) == [some |-> TRUE, info |-> query_info]

\* query_info as lines 81 to 113 leave it, from what the extractors returned
ExtractedInfo(query, query_lower, chat_history, followup, intent, depts, levels, codes, terms, cons, prefs) ==
    [original_query |-> query,
     departments |-> depts.departments,
     course_levels |-> levels.course_levels,
     course_codes |-> codes.course_codes,
     terms |-> terms.terms,
     constraints |-> cons.constraints,
     is_followup |-> followup.is_followup,
     referenced_courses |->
        IF followup.is_followup
        THEN _extract_referenced_courses(query_lower, chat_history) ELSE <<>>,
     preferences |-> prefs.preferences,
     intent |-> intent.intent,
     semantic_aspects |-> _extract_semantic_aspects(query_lower),
     implicit_preferences |-> _extract_implicit_preferences(query_lower),
     confidence_scores |->
        [intent |-> intent.confidence,
         departments |-> depts.confidence,
         course_levels |-> levels.confidence,
         course_codes |-> codes.confidence,
         terms |-> terms.confidence,
         constraints |-> cons.confidence,
         preferences |-> prefs.confidence,
         is_followup |-> followup.confidence]]

ExtractedLower(query, query_lower, chat_history, hash_seed) ==
    ExtractedInfo(query, query_lower, chat_history,
                  _is_followup_question(query_lower, chat_history),
                  _extract_intent(query_lower),
                  _extract_departments(query_lower, query),
                  _extract_course_levels(query_lower),
                  _extract_course_codes(query_lower, query, hash_seed),
                  _extract_terms(query_lower),
                  _extract_constraints(query_lower),
                  _extract_preferences(query_lower))

\* the fields process extracts from the query itself (lines 81 to 113), in
\* a process whose string hashes are seeded with hash_seed
Extracted(query, chat_history, hash_seed) ==
    ExtractedLower(query, StrLower(query), chat_history, hash_seed)

\* the follow-up names no course details of its own and there is a previous
\* query_info to inherit from (the test of line 116)
Inherits(x, last_query_info) ==
    /\ x.is_followup
    /\ x.departments = <<>> /\ x.course_levels = <<>>
    /\ x.course_codes = <<>> /\ x.referenced_courses = <<>>
    /\ last_query_info.some

\* the fields the inheritance block copies forward from the previous query_info
InheritedFields(x, last_query_info) ==
    IF ~Inherits(x, last_query_info) THEN {}
    ELSE LET last == last_query_info.info
         IN  {f \in {"departments", "course_levels", "course_codes"} : last[f] # <<>>}
             \cup (IF x.terms = <<>> /\ last.terms # <<>> THEN {"terms"} ELSE {})
             \cup {f \in {"max_hours", "min_score"} :
                     ~Truthy(x.constraints[f]) /\ Truthy(last.constraints[f])}

\* the confidence key a field is reported under
ConfidenceKey(f) == IF f \in {"max_hours", "min_score"} THEN "constraints" ELSE f

\* the confidence an inherited field is given
InheritedConfidence(previous) == 7000

\* confidence_scores after the inheritance block
MergedConfidence(x, last_query_info, fields) ==
    [k \in DOMAIN x.confidence_scores |->
        IF \E f \in fields : ConfidenceKey(f) = k
        THEN InheritedConfidence(last_query_info.info.confidence_scores[k])
        ELSE x.confidence_scores[k]]

\* query_info after the inheritance block, which copies the fields forward
Merged(x, last_query_info, fields) ==
    [x EXCEPT
        !.departments = IF "departments" \in fields THEN last_query_info.info.departments ELSE @,
        !.course_levels =
            IF "course_levels" \in fields THEN last_query_info.info.course_levels ELSE @,
        !.course_codes =
            IF "course_codes" \in fields THEN last_query_info.info.course_codes ELSE @,
        !.terms = IF "terms" \in fields THEN last_query_info.info.terms ELSE @,
        !.constraints =
            [f \in {"max_hours", "min_score"} |->
                IF f \in fields THEN last_query_info.info.constraints[f] ELSE x.constraints[f]],
        !.confidence_scores = MergedConfidence(x, last_query_info, fields)]

\* the query_info process returns: the merged fields and the self-reflection
Reflected(merged) ==
    [original_query |-> merged.original_query,
     departments |-> merged.departments,
     course_levels |-> merged.course_levels,
     course_codes |-> merged.course_codes,
     terms |-> merged.terms,
     constraints |-> merged.constraints,
     is_followup |-> merged.is_followup,
     referenced_courses |-> merged.referenced_courses,
     preferences |-> merged.preferences,
     intent |-> merged.intent,
     confidence_scores |-> merged.confidence_scores,
     self_reflection |-> _perform_self_reflection(merged, merged.confidence_scores),
     semantic_aspects |-> merged.semantic_aspects,
     implicit_preferences |-> merged.implicit_preferences]

\* the rest of process: inheritance, self-reflection, confidence_scores
Inherit(x, last_query_info) ==
    Reflected(Merged(x, last_query_info, InheritedFields(x, last_query_info)))

\* QueryProcessor(query, chat_history, last_query_info).process()
process(query, chat_history, last_query_info, hash_seed) ==
    Inherit(Extracted(query, chat_history, hash_seed), last_query_info)

\* no interpreter run yet
NoRun == [ran |-> FALSE]

\* no QueryProcessor instance yet
NoInstance == [calls |-> 0]

\* self.self_reflection after one more _perform_self_reflection: every note of
\* the call is appended to the lists the instance already holds
Appended(self_reflection, notes) ==
    [k \in DOMAIN self_reflection |-> self_reflection[k] \o notes[k]]

\* the instance after __init__ and its first process(): query_info holds
\* self.self_reflection itself, so the caller reads the instance's lists
NewInstance(hash_seed, query_info) ==
    [calls |-> 1, seed |-> hash_seed,
     self_reflection |-> query_info.self_reflection,
     first |-> query_info,
     latest |-> query_info]

\* process() once more on the instance: the extraction and the inheritance
\* give the same fields, and the notes go onto the lists of the instance,
\* which every query_info it returned holds
ProcessedAgain(self, query_info) ==
    With(Appended(self.self_reflection, _perform_self_reflection(query_info, query_info.confidence_scores)), LAMBDA lists :
        [calls |-> self.calls + 1, seed |-> self.seed,
         self_reflection |-> lists,
         first |-> [self.first EXCEPT !.self_reflection = lists],
         latest |-> [query_info EXCEPT !.self_reflection = lists]])

QPIdle == qp_seed = 0 /\ qp_last = NoQueryInfo /\ qp_run = NoRun /\ qp_self = NoInstance

-----------------------------------------------------------------------------
(* CourseFinder *)
(* A list of courses is the sequence of their course ids: the dicts the    *)
(* code passes around are the entries of course_dict themselves.  A field  *)
(* of a course with tag "none" is a key the record lacks or a None value;  *)
(* find_courses never tells the two apart.  A strategy result carries      *)
(* raised = TRUE when the strategy ends in an exception instead.           *)

\* student_profile; concentration is "" when the student has set none
Profile(concentration, courses_taken) ==
    [concentration |-> concentration, courses_taken |-> courses_taken]

\* the pair (courses, confidence) a strategy returns, and an exception
Found(courses, confidence) ==
    [raised |-> FALSE, courses |-> courses, confidence |-> confidence]
Raise == [raised |-> TRUE, courses |-> <<>>, confidence |-> 0]

\* CourseFinder.__init__
NewCourseFinder ==
    [search_cache |-> EmptyDict,
     confidence_scores |->
        [specific_courses |-> 0, level_courses |-> 0, term_courses |-> 0,
         filtered_courses |-> 0, semantic_matches |-> 0, relevant_courses |-> 0]]

\* one turn of a lookup loop: the course is appended (when unique is set,
\* only if the list lacks it), a code without a course costs confidence
LookupStep(acc, course, percent, unique) ==
    IF course.found
    THEN Found(IF unique /\ course.id \in SeqToSet(acc.courses)
               THEN acc.courses ELSE Append(acc.courses, course.id),
               acc.confidence)
    ELSE Found(acc.courses, Scaled(acc.confidence, percent))

RECURSIVE LookupCodes(_, _, _, _, _)
LookupCodes(d, acc, codes, percent, unique) ==
    IF codes = <<>> THEN acc
    ELSE LookupCodes(d, LookupStep(acc, get_course_by_code(d, Head(codes)), percent, unique),
                     Tail(codes), percent, unique)

\* lines 145 to 152: a course found for a comparison whose record lacks
\* mean_hours, or has None for it, is looked up in q_reports_df
LacksHours(d, query_info, course) ==
    /\ course.found
    /\ query_info.intent = "comparison"
    /\ d.course_dict[course.id].mean_hours.t = "none"
    /\ course.id # 0

\* q_reports_df[q_reports_df['course_id'] == course_id]
QReportsOf(d, course_id) ==
    SelectSeq(d.q_reports_df.rows, LAMBDA r : r.course_id = course_id)

\* lines 153 to 155: the record of the course in course_dict is given the
\* mean_hours of its first Q report
HoursAssigned(d, query_info, course) ==
    IF LacksHours(d, query_info, course) /\ QReportsOf(d, course.id) # <<>>
    THEN [d EXCEPT !.course_dict[course.id].mean_hours =
                        Head(QReportsOf(d, course.id)).mean_hours]
    ELSE d

\* the database once the loop of lines 142 to 160 has run over the codes
RECURSIVE HoursAssignedAll(_, _, _)
HoursAssignedAll(d, query_info, codes) ==
    IF codes = <<>> THEN d
    ELSE HoursAssignedAll(HoursAssigned(d, query_info, get_course_by_code(d, Head(codes))),
                          query_info, Tail(codes))

\* line 153 subscripts None when the database was made without Q reports
HoursLookupRaises(d, query_info) ==
    /\ ~d.q_reports_df.given
    /\ \E i \in 1..Len(query_info.course_codes) :
            LacksHours(d, query_info, get_course_by_code(d, query_info.course_codes[i]))

\* lines 139 to 160
SpecificByCode(d, query_info) ==
    IF query_info.course_codes # <<>>
    THEN IF HoursLookupRaises(d, query_info) THEN Raise
         ELSE LookupCodes(d, Found(<<>>, query_info.confidence_scores.course_codes),
                          query_info.course_codes, 90, FALSE)
    ELSE Found(<<>>, 0)

\* lines 175 to 179
CombinedConfidence(coded, referenced) ==
    Found(referenced.courses,
          IF referenced.courses = <<>> THEN referenced.confidence
          ELSE Max2(coded.confidence, referenced.confidence))

SpecificByReference(d, query_info, coded) ==
    IF coded.raised THEN Raise
    ELSE IF query_info.referenced_courses # <<>>
    THEN CombinedConfidence(coded,
            LookupCodes(d, Found(coded.courses, query_info.confidence_scores.is_followup),
                        query_info.referenced_courses, 80, TRUE))
    ELSE coded

_find_specific_courses(d, query_info) ==
    SpecificByReference(d, query_info, SpecificByCode(d, query_info))

\* the database as _find_specific_courses leaves it
SpecificAssigned(d, query_info) ==
    IF HoursLookupRaises(d, query_info) THEN d
    ELSE HoursAssignedAll(d, query_info, query_info.course_codes)

\* level_courses.extend(batch), and confidence *= 0.9 for an empty batch
Extended(acc, batch) ==
    Found(acc.courses \o batch,
          IF batch = <<>> THEN Scaled(acc.confidence, 90) ELSE acc.confidence)

RECURSIVE LevelRanges(_, _, _, _)
LevelRanges(d, acc, dept, course_levels) ==
    IF course_levels = <<>> THEN acc
    ELSE LevelRanges(d,
            Extended(acc, get_courses_by_level_range(d, dept, Head(course_levels)[1],
                                                     Head(course_levels)[2])),
            dept, Tail(course_levels))

RECURSIVE LevelDepts(_, _, _, _)
LevelDepts(d, acc, departments, course_levels) ==
    IF departments = <<>> THEN acc
    ELSE LevelDepts(d, LevelRanges(d, acc, Head(departments), course_levels),
                    Tail(departments), course_levels)

\* dept_map of _find_courses_by_level
level_dept_map ==
    ("MATH" :> "MATHEMATICS") @@ ("MATHS" :> "MATHEMATICS") @@
    ("PURE MATH" :> "MATHEMATICS") @@ ("STAT" :> "STATISTICS") @@
    ("STATS" :> "STATISTICS") @@ ("COMPSCI" :> "COMPUTER SCIENCE") @@
    ("CS" :> "COMPUTER SCIENCE") @@ ("COMP SCI" :> "COMPUTER SCIENCE") @@
    ("APMATH" :> "APPLIED MATHEMATICS") @@ ("APMTH" :> "APPLIED MATHEMATICS") @@
    ("AM" :> "APPLIED MATHEMATICS") @@ ("BME" :> "BIOMEDICAL ENGINEERING") @@
    ("EE" :> "ELECTRICAL ENGINEERING") @@ ("ES" :> "ENGINEERING SCIENCES") @@
    ("ESE" :> "ENVIRONMENTAL SCIENCE AND ENGINEERING") @@
    ("ME" :> "MECHANICAL ENGINEERING") @@ ("PHYS" :> "PHYSICS") @@
    ("ASTRO" :> "ASTROPHYSICS") @@ ("EPS" :> "EARTH AND PLANETARY SCIENCES") @@
    ("CHEM" :> "CHEMISTRY") @@ ("CPB" :> "CHEMICAL AND PHYSICAL BIOLOGY") @@
    ("HDRB" :> "HUMAN DEVELOPMENTAL AND REGENERATIVE BIOLOGY") @@
    ("HEB" :> "HUMAN EVOLUTIONARY BIOLOGY") @@ ("IB" :> "INTEGRATIVE BIOLOGY") @@
    ("MCB" :> "MOLECULAR AND CELLULAR BIOLOGY") @@ ("NEURO" :> "NEUROSCIENCE") @@
    ("ANTHRO" :> "ANTHROPOLOGY") @@ ("FM" :> "FOLKLORE AND MYTHOLOGY") @@
    ("SOC" :> "SOCIOLOGY") @@ ("WGS" :> "WOMEN, GENDER, AND SEXUALITY") @@
    ("AAAS" :> "AFRICAN AND AFRICAN AMERICAN STUDIES") @@ ("ECON" :> "ECONOMICS") @@
    ("GOV" :> "GOVERNMENT") @@ ("GOVT" :> "GOVERNMENT") @@
    ("HIST-SCI" :> "HISTORY AND SCIENCE") @@ ("HISTSCI" :> "HISTORY AND SCIENCE") @@
    ("PSY" :> "PSYCHOLOGY") @@ ("PSYCH" :> "PSYCHOLOGY") @@
    ("SOC-STD" :> "SOCIAL STUDIES") @@ ("SOCSTD" :> "SOCIAL STUDIES") @@
    ("SOC STD" :> "SOCIAL STUDIES") @@ ("SOCSTUDY" :> "SOCIAL STUDIES") @@
    ("HIST" :> "HISTORY") @@ ("HIST-LIT" :> "HISTORY AND LITERATURE") @@
    ("HISTLIT" :> "HISTORY AND LITERATURE") @@ ("COMPLIT" :> "COMPARATIVE LITERATURE") @@
    ("EAS" :> "EAST ASIAN STUDIES") @@ ("ENGLISH" :> "ENGLISH") @@ ("ENG" :> "ENGLISH") @@
    ("GERMANIC" :> "GERMANIC LANGUAGES AND LITERATURES") @@
    ("GERMAN" :> "GERMANIC LANGUAGES AND LITERATURES") @@
    ("NELC" :> "NEAR EASTERN LANGUAGES AND CIVILIZATIONS") @@
    ("REL" :> "RELIGION") @@ ("RELIGION" :> "RELIGION") @@ ("RELIG" :> "RELIGION") @@
    ("ROM-LANG" :> "ROMANCE LANGUAGES AND LITERATURES") @@
    ("ROMANCE" :> "ROMANCE LANGUAGES AND LITERATURES") @@
    ("SLAVIC" :> "SLAVIC LANGUAGES AND LITERATURES") @@
    ("AFVS" :> "ART, FILM, AND VISUAL STUDIES") @@
    ("VES" :> "ART, FILM, AND VISUAL STUDIES") @@
    ("ART" :> "ART, FILM, AND VISUAL STUDIES") @@
    ("FRENCH" :> "ROMANCE LANGUAGES AND LITERATURES") @@
    ("SPANISH" :> "ROMANCE LANGUAGES AND LITERATURES") @@
    ("ITALIAN" :> "ROMANCE LANGUAGES AND LITERATURES") @@
    ("PORTUGUESE" :> "ROMANCE LANGUAGES AND LITERATURES") @@
    ("LATIN" :> "CLASSICS") @@ ("GREEK" :> "CLASSICS") @@ ("CLASSICS" :> "CLASSICS") @@
    ("CHINESE" :> "EAST ASIAN STUDIES") @@ ("JAPANESE" :> "EAST ASIAN STUDIES") @@
    ("KOREAN" :> "EAST ASIAN STUDIES") @@
    ("RUSSIAN" :> "SLAVIC LANGUAGES AND LITERATURES") @@
    ("EXPOS" :> "EXPOSITORY WRITING") @@ ("GEN-ED" :> "GENERAL EDUCATION") @@
    ("GENED" :> "GENERAL EDUCATION")

\* dept_map.get(concentration) as a list: empty when the lookup gives None
MappedDept(dept_map, concentration) ==
    IF concentration \in DOMAIN dept_map THEN <<dept_map[concentration]>> ELSE <<>>

_find_courses_by_level(d, query_info, student_profile) ==
    IF query_info.departments # <<>> /\ query_info.course_levels # <<>>
    THEN LevelDepts(d, Found(<<>>, Min2(query_info.confidence_scores.departments,
                                        query_info.confidence_scores.course_levels)),
                    query_info.departments, query_info.course_levels)
    ELSE IF query_info.course_levels # <<>>
    THEN LevelDepts(d, Found(<<>>, Scaled(query_info.confidence_scores.course_levels, 80)),
                    IF student_profile.concentration # ""
                    THEN MappedDept(level_dept_map, student_profile.concentration)
                    ELSE <<>>,
                    query_info.course_levels)
    ELSE Found(<<>>, 0)

\* line 365 for one course: the term field t is true and holds the term
\* asked for; t.lower() raises for a true value that is not a string
TermLookupFails(t) == Truthy(t) /\ ~IsStr(t)
TermHolds(t, term) == Truthy(t) /\ StrContains(StrLower(t.v), StrLower(term))

TermBatch(d, term) ==
    SelectSeq(d.course_ids, LAMBDA cid : TermHolds(d.course_dict[cid].term, term))

RECURSIVE TermsLoop(_, _, _)
TermsLoop(d, acc, terms) ==
    IF terms = <<>> THEN acc
    ELSE TermsLoop(d, Extended(acc, TermBatch(d, Head(terms))), Tail(terms))

_find_courses_by_term(d, query_info) ==
    IF query_info.terms = <<>> THEN Found(<<>>, 0)
    ELSE IF \E cid \in DOMAIN d.course_dict : TermLookupFails(d.course_dict[cid].term)
    THEN Raise
    ELSE TermsLoop(d, Found(<<>>, query_info.confidence_scores.terms), query_info.terms)

\* the names under which Social Studies is asked for and tagged
SocialStudiesNames == {"SOCIAL STUDIES", "SOC-STD", "SOCSTD", "SOC STD"}
SocialStudiesTags == {"SOC-STD", "SOCSTD", "SOC STD"}

\* group 1 of  ^([A-Za-z-]+)\s*\d+  in class_tag, "" when there is no match
LeadingDeptTo(class_tag, j, k) ==
    IF j > 1 /\ RunEnd(class_tag, k, "digit") > k THEN SubSeq(class_tag, 1, j - 1) ELSE ""
LeadingDeptFrom(class_tag, j) == LeadingDeptTo(class_tag, j, RunEnd(class_tag, j, "space"))
LeadingDept(class_tag) == LeadingDeptFrom(class_tag, RunEnd(class_tag, 1, "letterdash"))

\* lines 831 to 858, on the upper-cased class_tag; HarvardDatabase has no dept_map
TagMatchesDept(class_tag, dept_upper) ==
    \/ StrContains(class_tag, dept_upper)
    \/ /\ dept_upper \in SocialStudiesNames
       /\ \E tag \in SocialStudiesTags : StrContains(class_tag, tag)
    \/ LeadingDept(class_tag) # "" /\ LeadingDept(class_tag) = dept_upper

\* lines 861 to 886, on the upper-cased department or subject field
FieldMatchesDept(field, dept_upper) ==
    \/ field = dept_upper
    \/ /\ dept_upper \in SocialStudiesNames
       /\ \E sd \in SocialStudiesNames : StrContains(field, sd)

_course_matches_dept(course, dept) ==
    \/ IsStr(course.class_tag) /\ TagMatchesDept(StrUpper(course.class_tag.v), StrUpper(dept))
    \/ IsStr(course.department) /\ FieldMatchesDept(StrUpper(course.department.v), StrUpper(dept))
    \/ IsStr(course.subject) /\ FieldMatchesDept(StrUpper(course.subject.v), StrUpper(dept))

\* all(part in course_term_parts for part in term_parts)
AllPartsIn(term_parts, course_term_parts) ==
    \A i \in 1..Len(term_parts) : term_parts[i] \in SeqToSet(course_term_parts)

_course_matches_term(course, term) ==
    /\ IsStr(course.term)
    /\ \/ StrContains(StrLower(course.term.v), StrLower(term))
       \/ AllPartsIn(StrSplit(StrLower(term)), StrSplit(StrLower(course.term.v)))

\* float(nan) >= min_score and float(nan) <= max_hours are both false
_course_above_min_score(course, min_score) ==
    IsNum(course.overall_score_course_mean) /\ course.overall_score_course_mean.v >= min_score

_course_below_max_hours(course, max_hours) ==
    CASE course.mean_hours.t = "none" -> TRUE
      [] course.mean_hours.t = "num" -> course.mean_hours.v <= max_hours
      [] OTHER -> FALSE

\* dept_map of _apply_all_filters
filter_dept_map ==
    ("Mathematics" :> "MATH") @@ ("Computer Science" :> "COMPSCI") @@
    ("Economics" :> "ECON") @@ ("History" :> "HIST") @@ ("English" :> "ENG") @@
    ("Chemistry" :> "CHEM") @@ ("Physics" :> "PHYSICS") @@ ("Psychology" :> "PSY") @@
    ("Government" :> "GOV") @@ ("Sociology" :> "SOC")

\* departments and confidence as lines 379 to 406 leave them
FilterDepartments(query_info, student_profile) ==
    IF query_info.departments # <<>> THEN query_info.departments
    ELSE IF student_profile.concentration # ""
    THEN MappedDept(filter_dept_map, student_profile.concentration)
    ELSE <<>>

FilterConfidence(query_info, student_profile) ==
    IF query_info.departments # <<>>
    THEN Min2(8000, query_info.confidence_scores.departments)
    ELSE IF student_profile.concentration # "" THEN Scaled(8000, 90)
    ELSE 8000

RECURSIVE DeptCourses(_, _)
DeptCourses(d, departments) ==
    IF departments = <<>> THEN <<>>
    ELSE SelectSeq(d.course_ids,
                   LAMBDA cid : _course_matches_dept(d.course_dict[cid], Head(departments)))
         \o DeptCourses(d, Tail(departments))

\* lines 409 to 421
DeptFiltered(d, departments, confidence) ==
    IF departments # <<>> THEN Found(DeptCourses(d, departments), confidence)
    ELSE Found(d.course_ids, Scaled(confidence, 80))

\* the number of the class_tag lies in one of the level ranges
InSomeLevel(class_tag, course_levels) ==
    \E i \in 1..Len(course_levels) :
        NumberWithin(TagMatch(class_tag), course_levels[i][1], course_levels[i][2])

\* lines 424 to 439
LevelFiltered(d, query_info, acc) ==
    IF query_info.course_levels # <<>>
    THEN Found(SelectSeq(acc.courses, LAMBDA cid :
                    InSomeLevel(d.course_dict[cid].class_tag, query_info.course_levels)),
               Min2(acc.confidence, query_info.confidence_scores.course_levels))
    ELSE acc

\* lines 442 to 452
TermFiltered(d, query_info, acc) ==
    IF query_info.terms # <<>>
    THEN Found(SelectSeq(acc.courses, LAMBDA cid :
                    \E i \in 1..Len(query_info.terms) :
                        _course_matches_term(d.course_dict[cid], query_info.terms[i])),
               Min2(acc.confidence, query_info.confidence_scores.terms))
    ELSE acc

\* lines 460 to 465
HoursFiltered(d, query_info, acc) ==
    IF query_info.constraints.max_hours.t # "none"
    THEN Found(SelectSeq(acc.courses, LAMBDA cid :
                    _course_below_max_hours(d.course_dict[cid],
                                            query_info.constraints.max_hours.v)),
               Min2(acc.confidence, query_info.confidence_scores.constraints))
    ELSE acc

\* lines 467 to 472
ScoreFiltered(d, query_info, acc) ==
    IF query_info.constraints.min_score.t # "none"
    THEN Found(SelectSeq(acc.courses, LAMBDA cid :
                    _course_above_min_score(d.course_dict[cid],
                                            query_info.constraints.min_score.v)),
               Min2(acc.confidence, query_info.confidence_scores.constraints))
    ELSE acc

\* lines 475 to 478
SizeAdjusted(acc) ==
    Found(acc.courses,
          IF Len(acc.courses) = 0 THEN Scaled(acc.confidence, 50)
          ELSE IF Len(acc.courses) > 50 THEN Scaled(acc.confidence, 90)
          ELSE acc.confidence)

_apply_all_filters(d, query_info, student_profile) ==
    SizeAdjusted(
        ScoreFiltered(d, query_info,
            HoursFiltered(d, query_info,
                TermFiltered(d, query_info,
                    LevelFiltered(d, query_info,
                        DeptFiltered(d, FilterDepartments(query_info, student_profile),
                                     FilterConfidence(query_info, student_profile)))))))

\* a preference in the words added to the semantic query
PrefTerm(pref) ==
    CASE pref = "easy" -> "easy manageable workload"
      [] pref = "hard" -> "challenging rigorous"
      [] pref = "interesting" -> "interesting engaging"
      [] pref = "practical" -> "practical applied"
      [] pref = "theoretical" -> "theoretical conceptual"
      [] OTHER -> IF StartsWith(pref, "interest:")
                  THEN "about " \o SubSeq(pref, Len("interest:") + 1, Len(pref))
                  ELSE pref

ConcentrationTerms(concentration) ==
    IF concentration = "" THEN ""
    ELSE " " \o concentration \o
         (IF StrContains(concentration, "Social Studies")
          THEN " politics government sociology economics history social theory"
          ELSE IF StrContains(concentration, "History and Literature")
          THEN " literary historical analysis cultural studies"
          ELSE "")

\* semantic_query as lines 492 to 528 build it
SemanticQuery(query_info, student_profile) ==
    query_info.original_query
    \o ConcentrationTerms(student_profile.concentration)
    \o (IF query_info.preferences # <<>>
        THEN " " \o StrJoin([i \in 1..Len(query_info.preferences) |->
                                PrefTerm(query_info.preferences[i])], " ")
        ELSE "")

\* the number of results vector_search is asked for
TopK == 20

\* what the embedding model and the FAISS index give for one search: a
\* failure, or indices[0], the top_k positions in rank order, -1 for none
FaissFailure == [failed |-> TRUE, indices |-> <<>>]
FaissIndices(indices) == [failed |-> FALSE, indices |-> indices]

\* ids[i] for a Python index i, which counts from the end when negative
PyIndex(ids, i) == IF i >= 0 THEN ids[i + 1] ELSE ids[Len(ids) + i + 1]

RECURSIVE CoursesAt(_, _)
CoursesAt(d, indices) ==
    IF indices = <<>> THEN <<>>
    ELSE (IF /\ Head(indices) < Len(d.course_ids_for_embeddings)
             /\ get_course_by_id(d, PyIndex(d.course_ids_for_embeddings, Head(indices))).found
          THEN <<PyIndex(d.course_ids_for_embeddings, Head(indices))>> ELSE <<>>)
         \o CoursesAt(d, Tail(indices))

\* HarvardDatabase.vector_search; any exception inside ends in []
vector_search(d, faiss) ==
    IF ~d.embedding_index \/ faiss.failed THEN <<>>
    ELSE CoursesAt(d, faiss.indices)

\* the matches with the cache as it is afterwards
Semantic(courses, confidence, search_cache) ==
    [raised |-> FALSE, courses |-> courses, confidence |-> confidence,
     search_cache |-> search_cache]

\* self.search_cache[cache_key] = semantic_matches
CacheStore_dropped(search_cache, cache_key, semantic_matches) == search_cache
CacheStore(search_cache, cache_key, semantic_matches) ==
    Put(search_cache, cache_key, semantic_matches)

\* lines 536 to 546
SearchedMatches(search_cache, cache_key, semantic_matches) ==
    Semantic(semantic_matches,
             IF Len(semantic_matches) = 0 THEN Scaled(7000, 50)
             ELSE IF Len(semantic_matches) < 5 THEN Scaled(7000, 80)
             ELSE 7000,
             CacheStore(search_cache, cache_key, semantic_matches))

SemanticByKey(d, search_cache, cache_key, faiss) ==
    IF cache_key \in DOMAIN search_cache
    THEN Semantic(search_cache[cache_key], 7000, search_cache)
    ELSE SearchedMatches(search_cache, cache_key, vector_search(d, faiss))

_find_semantic_matches(d, search_cache, query_info, student_profile, faiss) ==
    SemanticByKey(d, search_cache,
                  "semantic:" \o SemanticQuery(query_info, student_profile), faiss)

\* a ranking score, in units of 1/(20000 n) for n = max(1, len(preferences))
\* so that no rounding is needed, or NaN
Score(v) == [nan |-> FALSE, v |-> v]
NaNScore == [nan |-> TRUE, v |-> 0]
ScorePlus(a, b) == IF a.nan \/ b.nan THEN NaNScore ELSE Score(a.v + b.v)

\* what one preference adds to preference_match_score, in two-thousandths:
\* max(0, 20 - nan) is 0 and min(nan, 20) is nan
PrefPoints(course, pref) ==
    IF pref = "easy" /\ Truthy(course.mean_hours)
    THEN IF IsNum(course.mean_hours) THEN Score(Max2(0, 2000 - course.mean_hours.v))
         ELSE Score(0)
    ELSE IF pref = "hard" /\ Truthy(course.mean_hours)
    THEN IF IsNum(course.mean_hours) THEN Score(Min2(course.mean_hours.v, 2000))
         ELSE NaNScore
    ELSE IF StartsWith(pref, "interest:") THEN Score(400)
    ELSE Score(0)

RECURSIVE PrefPointsSum(_, _)
PrefPointsSum(course, preferences) ==
    IF preferences = <<>> THEN Score(0)
    ELSE ScorePlus(PrefPoints(course, Head(preferences)),
                   PrefPointsSum(course, Tail(preferences)))

\* 0.5 * (q_score / 5.0), in ten-thousandths, of a rating that is true
RatingScore(rating) ==
    IF ~Truthy(rating) THEN Score(0)
    ELSE IF IsNum(rating) THEN Score(rating.v * 10)
    ELSE NaNScore

\* the bonuses of lines 654 to 663, in ten-thousandths
ConcentrationBonus(course, concentration) ==
    IF concentration # "" /\ course.department = Str(concentration) THEN 2000 ELSE 0

TimesBonus(course) ==
    IF \/ course.days.t = "none"
       \/ course.start_times.t = "none"
       \/ course.end_times.t = "none"
    THEN 500 ELSE 0

\* base_score of one course: with n preferences, 0.3 * (points / 2000) / n
\* is 3 * points / (2 n) ten-thousandths
ScaledScore(rating, bonus, points, n) ==
    IF rating.nan \/ points.nan THEN NaNScore
    ELSE Score(2 * n * (rating.v + bonus) + 3 * points.v)

BaseScore(course, query_info, student_profile) ==
    ScaledScore(RatingScore(course.overall_score_course_mean),
                ConcentrationBonus(course, student_profile.concentration) + TimesBonus(course),
                PrefPointsSum(course, query_info.preferences),
                Max2(1, Len(query_info.preferences)))

\* a < b on scores: every comparison with NaN is false
ScoreLt(a, b) == ~a.nan /\ ~b.nan /\ a.v < b.v

\* list.sort of CPython (up to 3.12) on fewer than 64 items, which are one
\* run: count_run takes the ordered prefix, binarysort inserts the rest
RECURSIVE RunLength(_, _, _)
RunLength(items, n, descending) ==
    IF n < Len(items) /\ (ScoreLt(items[n + 1].score, items[n].score) <=> descending)
    THEN RunLength(items, n + 1, descending)
    ELSE n

RunOf(items, descending) ==
    [n |-> RunLength(items, 2, descending), descending |-> descending]

count_run(items) == RunOf(items, ScoreLt(items[2].score, items[1].score))

\* the place in items[l .. r-1] the pivot is inserted at
RECURSIVE BinaryPlace(_, _, _, _)
BinaryNext(items, pivot, l, r) ==
    IF l < r THEN BinaryPlace(items, pivot, l, r) ELSE l

BinaryProbe(items, pivot, l, r, p) ==
    IF ScoreLt(pivot.score, items[p].score)
    THEN BinaryNext(items, pivot, l, p)
    ELSE BinaryNext(items, pivot, p + 1, r)

BinaryPlace(items, pivot, l, r) ==
    With(l + ((r - l) \div 2), LAMBDA p : BinaryProbe(items, pivot, l, r, p))

\* items with the one at position from moved down to position to
MovedTo(items, from, to) ==
    SubSeq(items, 1, to - 1) \o <<items[from]>> \o SubSeq(items, to, from - 1)
    \o SubSeq(items, from + 1, Len(items))

\* items with the one at position start put at its place in items[1 .. start-1]
Placed(items, start) ==
    With(BinaryPlace(items, items[start], 1, start), LAMBDA place :
        MovedTo(items, start, place))

\* the items at start .. n placed one after the other
RECURSIVE PlacedUpTo(_, _, _)
PlacedUpTo(items, start, n) ==
    IF n < start THEN items
    ELSE With(PlacedUpTo(items, start, n - 1), LAMBDA before : Placed(before, n))

binarysort(items, start) == PlacedUpTo(items, start, Len(items))

SortRun(items, run) ==
    With(IF run.descending
         THEN Reverse(SubSeq(items, 1, run.n)) \o SubSeq(items, run.n + 1, Len(items))
         ELSE items,
         LAMBDA ordered : binarysort(ordered, run.n + 1))

ListSort(items) ==
    IF Len(items) < 2 THEN items
    ELSE With(count_run(items), LAMBDA run : SortRun(items, run))

\* sorted(..., reverse=True): reversed, sorted ascending and reversed again
SortedDescending(items) ==
    With(Reverse(items), LAMBDA reversed :
        With(ListSort(reversed), LAMBDA sorted_items : Reverse(sorted_items)))

\* the first non-empty of the buckets, in the order of lines 570 to 588
FirstBucket_filteredFirst(specific, filtered, semantic, level, term, confidence_scores) ==
    IF filtered # <<>> THEN Found(filtered, confidence_scores.filtered_courses)
    ELSE IF specific # <<>> THEN Found(specific, confidence_scores.specific_courses)
    ELSE IF semantic # <<>> THEN Found(semantic, confidence_scores.semantic_matches)
    ELSE IF level # <<>> THEN Found(level, confidence_scores.level_courses)
    ELSE IF term # <<>> THEN Found(term, confidence_scores.term_courses)
    ELSE Found(<<>>, 0)

FirstBucket(specific, filtered, semantic, level, term, confidence_scores) ==
    IF specific # <<>> THEN Found(specific, confidence_scores.specific_courses)
    ELSE IF filtered # <<>> THEN Found(filtered, confidence_scores.filtered_courses)
    ELSE IF semantic # <<>> THEN Found(semantic, confidence_scores.semantic_matches)
    ELSE IF level # <<>> THEN Found(level, confidence_scores.level_courses)
    ELSE IF term # <<>> THEN Found(term, confidence_scores.term_courses)
    ELSE Found(<<>>, 0)

\* course_ranks.items(): one entry per course_id, in order of first insertion
Ranked(d, relevant, query_info, student_profile) ==
    [i \in 1..Len(relevant) |->
        [course_id |-> relevant[i],
         score |-> BaseScore(d.course_dict[relevant[i]], query_info, student_profile)]]

CourseIds(items) == [i \in 1..Len(items) |-> items[i].course_id]

\* the query asks for all courses (line 681)
AsksForAll(query_lower) ==
    With(query_lower, LAMBDA text :
        \/ StrContains(text, "all")
        \/ StrContains(text, "every")
        \/ StrContains(text, "list all"))

\* the number of courses a query that does not ask for all is answered with
RelevantLimit == 10

\* sorted_courses[:10]
TopRanked_uncut(sorted_courses) == sorted_courses
TopRanked(sorted_courses) ==
    SubSeq(sorted_courses, 1, Min2(Len(sorted_courses), RelevantLimit))

Selected(sorted_courses, query_lower) ==
    IF AsksForAll(query_lower) THEN sorted_courses ELSE TopRanked(sorted_courses)

RankedBucket(d, seed, query_info, student_profile) ==
    IF seed.courses = <<>> THEN Found(<<>>, 0)
    ELSE With(Dedup(seed.courses), LAMBDA unique :
         With(Ranked(d, unique, query_info, student_profile), LAMBDA ranked :
         With(SortedDescending(ranked), LAMBDA sorted_items :
         With(CourseIds(sorted_items), LAMBDA sorted_courses :
            Found(Selected(sorted_courses, StrLower(query_info.original_query)),
                  seed.confidence)))))

_determine_most_relevant(d, specific, filtered, semantic, level, term, confidence_scores, query_info, student_profile) ==
    RankedBucket(d, FirstBucket(specific, filtered, semantic, level, term, confidence_scores),
                 query_info, student_profile)

\* the verification notes, each by the fixed words it starts with
NoteIf(cond, note) == IF cond THEN <<note>> ELSE <<>>

\* lines 695 to 706
NothingFoundNotes(relevant, specific, query_info) ==
    IF relevant = <<>> /\ specific = <<>>
    THEN <<"No courses found matching the criteria">>
         \o NoteIf(query_info.course_levels # <<>> /\ query_info.departments # <<>>,
                   "No courses found for levels")
         \o NoteIf(query_info.constraints.max_hours.t # "none", "The max hours constraint")
         \o NoteIf(query_info.constraints.min_score.t # "none", "The min score constraint")
    ELSE <<>>

\* line 713 on one course: course.get('term', '').lower() needs a str
TermCheckFails(course) == course.term.t \notin {"str", "none"}
TermCheckHolds(course, terms) ==
    \E i \in 1..Len(terms) :
        StrContains(StrLower(IF IsStr(course.term) THEN course.term.v ELSE ""),
                    StrLower(terms[i]))

\* lines 709 to 719
TermNotes(d, relevant, query_info) ==
    NoteIf(/\ query_info.terms # <<>> /\ relevant # <<>>
           /\ \A i \in 1..Len(relevant) :
                ~TermCheckHolds(d.course_dict[relevant[i]], query_info.terms),
           "Warning: None of the relevant courses match the requested term(s)")

\* lines 722 to 742
LevelNotes(d, relevant, query_info) ==
    NoteIf(/\ query_info.course_levels # <<>> /\ relevant # <<>>
           /\ \A i \in 1..Len(relevant) :
                ~InSomeLevel(d.course_dict[relevant[i]].class_tag, query_info.course_levels),
           "Warning: None of the relevant courses match the requested level(s)")

\* lines 753 to 763; no course record carries course_requirements, so
\* lines 745 to 750 add nothing
ConcentrationNotes(d, relevant, student_profile) ==
    NoteIf(/\ student_profile.concentration # "" /\ relevant # <<>>
           /\ \A i \in 1..Len(relevant) :
                d.course_dict[relevant[i]].department # Str(student_profile.concentration),
           "Note: None of the relevant courses are in the student's concentration")

\* line 770 on one course: class_tag.upper() needs a str
TakenCheckFails(course) == course.class_tag.t \notin {"str", "none"}
TakenCheckHolds(course, courses_taken) ==
    /\ IsStr(course.class_tag)
    /\ \E i \in 1..Len(courses_taken) :
            StrUpper(courses_taken[i]) = StrUpper(course.class_tag.v)

\* lines 766 to 771
RECURSIVE TakenNotes(_, _, _)
TakenNotes(d, relevant, courses_taken) ==
    IF relevant = <<>> \/ courses_taken = <<>> THEN <<>>
    ELSE NoteIf(TakenCheckHolds(d.course_dict[Head(relevant)], courses_taken),
                "Warning: " \o d.course_dict[Head(relevant)].class_tag.v
                \o " is in the results but has already been taken by the student")
         \o TakenNotes(d, Tail(relevant), courses_taken)

\* an AttributeError leaves _verify_results
VerifyRaises(d, relevant, query_info, student_profile) ==
    \/ /\ query_info.terms # <<>>
       /\ \E i \in 1..Len(relevant) : TermCheckFails(d.course_dict[relevant[i]])
    \/ /\ student_profile.courses_taken # <<>>
       /\ \E i \in 1..Len(relevant) : TakenCheckFails(d.course_dict[relevant[i]])

_verify_results(d, relevant, specific, query_info, student_profile) ==
    IF VerifyRaises(d, relevant, query_info, student_profile)
    THEN [raised |-> TRUE, notes |-> <<>>]
    ELSE [raised |-> FALSE,
          notes |-> NothingFoundNotes(relevant, specific, query_info)
                    \o TermNotes(d, relevant, query_info)
                    \o LevelNotes(d, relevant, query_info)
                    \o ConcentrationNotes(d, relevant, student_profile)
                    \o TakenNotes(d, relevant, student_profile.courses_taken)]

\* the explanation of one step: what it found, or that it found nothing
StepNote(courses, found_head, found_tail, nothing) ==
    IF courses # <<>> THEN found_head \o IntToStr(Len(courses)) \o found_tail ELSE nothing

\* retrieval_explanation, entry by entry
Explanations(specific, level, term, filtered, semantic, relevant, verification) ==
    << "Step 1: Looking for explicitly mentioned courses...",
       StepNote(specific, "Found ", " explicitly mentioned courses",
                "No explicitly mentioned courses found"),
       "Step 2: Searching by department and course level...",
       StepNote(level, "Found ", " courses matching department and level criteria",
                "No courses found matching department and level criteria"),
       "Step 3: Filtering courses by term...",
       StepNote(term, "Found ", " courses matching term criteria",
                "No term specified or no courses found for the specified term"),
       "Step 4: Applying all structured filters...",
       StepNote(filtered, "Found ", " courses matching all structured filters",
                "No courses found matching all structured filters"),
       "Step 5: Applying semantic search for implicit criteria...",
       StepNote(semantic, "Found ", " courses matching semantic criteria",
                "No additional courses found through semantic search"),
       "Step 6: Determining most relevant courses through hybrid ranking...",
       StepNote(relevant, "Selected ", " most relevant courses",
                "Could not determine relevant courses"),
       "Step 7: Verifying results against requirements..." >>
    \o NoteIf(verification # <<>>,
              "Found " \o IntToStr(Len(verification))
              \o " verification notes about the results")

\* self.confidence_scores once steps 1 to 5 have written their entries
StrategyConfidence(specific, level, term, filtered, semantic, relevant_confidence) ==
    [specific_courses |-> specific.confidence, level_courses |-> level.confidence,
     term_courses |-> term.confidence, filtered_courses |-> filtered.confidence,
     semantic_matches |-> semantic.confidence, relevant_courses |-> relevant_confidence]

\* what find_courses does to the caller: it returns results or raises, and
\* it leaves the CourseFinder as self
Returned(self, results) == [raised |-> FALSE, self |-> self, results |-> results]
Raised(self) == [raised |-> TRUE, self |-> self, results |-> <<>>]

\* step 7 and the return
Verified(specific, level, term, filtered, semantic, relevant, verification) ==
    With([search_cache |-> semantic.search_cache,
          confidence_scores |-> StrategyConfidence(specific, level, term, filtered, semantic,
                                                   relevant.confidence)],
         LAMBDA self :
            IF verification.raised THEN Raised(self)
            ELSE Returned(self,
                    [specific_courses |-> specific.courses,
                     level_courses |-> level.courses,
                     term_courses |-> term.courses,
                     filtered_courses |-> filtered.courses,
                     semantic_matches |-> semantic.courses,
                     relevant_courses |-> relevant.courses,
                     confidence_scores |-> self.confidence_scores,
                     retrieval_explanation |->
                        Explanations(specific.courses, level.courses, term.courses,
                                     filtered.courses, semantic.courses, relevant.courses,
                                     verification.notes),
                     verification |-> verification.notes]))

\* steps 6 and 7; relevant_courses is ranked with the confidences steps 1
\* to 5 have just stored in self.confidence_scores
RankedAndVerified(d, query_info, student_profile, specific, level, term, filtered, semantic) ==
    With(_determine_most_relevant(d, specific.courses, filtered.courses, semantic.courses,
                                  level.courses, term.courses,
                                  StrategyConfidence(specific, level, term, filtered,
                                                     semantic, 0),
                                  query_info, student_profile),
         LAMBDA relevant :
            Verified(specific, level, term, filtered, semantic, relevant,
                     _verify_results(d, relevant.courses, specific.courses,
                                     query_info, student_profile)))

\* steps 1 to 4 over the database d as step 1 has left it; they read only
\* the database and the arguments, and step 4 is not reached when step 3
\* raises
Structured(d, query_info, student_profile) ==
    [specific |-> _find_specific_courses(d, query_info),
     level |-> _find_courses_by_level(d, query_info, student_profile),
     term |-> _find_courses_by_term(d, query_info),
     filtered |-> _apply_all_filters(d, query_info, student_profile)]

\* find_courses from the outcome of steps 1 to 4 on: an exception in step 3
\* leaves the confidences of steps 1 and 2 stored and the rest of self as
\* it was
FromStructured(d, self, query_info, student_profile, faiss, found) ==
    IF found.specific.raised THEN Raised(self)
    ELSE IF found.term.raised
    THEN Raised([self EXCEPT
                    !.confidence_scores.specific_courses = found.specific.confidence,
                    !.confidence_scores.level_courses = found.level.confidence])
    ELSE RankedAndVerified(d, query_info, student_profile,
            found.specific, found.level, found.term, found.filtered,
            _find_semantic_matches(d, self.search_cache, query_info, student_profile, faiss))

\* CourseFinder.find_courses on the finder self over the database d, with
\* faiss the answer the vector index gives if it is asked
find_courses(d, self, query_info, student_profile, faiss) ==
    FromStructured(SpecificAssigned(d, query_info), self, query_info, student_profile, faiss,
                   Structured(SpecificAssigned(d, query_info), query_info, student_profile))

\* no call of find_courses yet
NoCall == [made |-> FALSE]

CFIdle == cf = NewCourseFinder /\ cf_call = NoCall /\ cf_first = EmptyDict /\ cf_calls = 0

\* the threads that call find_courses on the one CourseFinder
Threads == {1, 2}

\* a thread that is in no call of find_courses
NotCalling == [pc |-> "idle"]

ThreadsIdle == th = [t \in Threads |-> NotCalling]

-----------------------------------------------------------------------------
(* Search in HarvardDatabase *)
(* The embedding model, the FAISS index and BM25 are libraries: what they   *)
(* answer during one call is an input, search = [faiss, bm25].  faiss is    *)
(* the answer of the vector index as in vector_search; bm25 is the order,   *)
(* best first, in which BM25 ranks the positions of the keyword index.      *)

\* q[:n]
Take(q, n) == SubSeq(q, 1, Min2(n, Len(q)))

\* vector_search asked for top_k results: the index answers with top_k positions
vector_search_top(d, faiss, top_k) ==
    vector_search(d, [faiss EXCEPT !.indices = Take(@, top_k)])

\* keyword_search: the courses at np.argsort(bm25_scores)[::-1][:top_k]
keyword_search(d, query, top_k, bm25) ==
    IF ~d.bm25_index \/ _tokenize_text(query) = <<>> THEN <<>>
    ELSE [k \in 1..Min2(top_k, Len(bm25)) |-> d.course_ids_for_bm25[bm25[k] + 1]]

\* the characters of the texts used here in the order of their code points
AsciiOrder == " -.0123456789:ABCDEFGHIJKLMNOPQRSTUVWXYZ_abcdefghijklmnopqrstuvwxyz"

OrdOf(c) == CHOOSE i \in 1..Len(AsciiOrder) : CharAt(AsciiOrder, i) = c

\* a < b on strings
RECURSIVE StrLess(_, _)
StrLess(a, b) ==
    IF b = "" THEN FALSE
    ELSE IF a = "" THEN TRUE
    ELSE IF CharAt(a, 1) = CharAt(b, 1)
    THEN StrLess(SubSeq(a, 2, Len(a)), SubSeq(b, 2, Len(b)))
    ELSE OrdOf(CharAt(a, 1)) < OrdOf(CharAt(b, 1))

\* sorted(items) under the order Less: an item is keyed by the number of
\* items below it, which orders the items as Less does
SortedSeq(items, Less(_, _)) ==
    CourseIds(ListSort(
        [i \in 1..Len(items) |->
            [course_id |-> items[i],
             score |-> Score(Cardinality({j \in 1..Len(items) : Less(items[j], items[i])}))]]))

\* what a search returns, with the database as the search leaves it
Searched(courses, d) == [courses |-> courses, db |-> d]

\* field and query_lower in field.lower(), for course.get(field, '')
FieldHolds(field, query_lower) ==
    IsStr(field) /\ field.v # "" /\ StrContains(StrLower(field.v), query_lower)

\* lines 704 to 706 on one course: .lower() of a NaN field is an exception
TextMatchRaises(course, query_lower) ==
    \/ course.class_name.t = "nan"
    \/ ~FieldHolds(course.class_name, query_lower) /\ course.class_tag.t = "nan"

TextMatches(course, query_lower) ==
    FieldHolds(course.class_name, query_lower) \/ FieldHolds(course.class_tag, query_lower)

\* x.get('class_tag', '') as a sort key
TagKeyOf(d, cid) ==
    IF IsStr(d.course_dict[cid].class_tag) THEN d.course_dict[cid].class_tag.v ELSE ""

\* results.sort(key=class_tag): comparing a NaN with a str is an exception
TagSortRaises(d, results) ==
    /\ \E i \in 1..Len(results) : d.course_dict[results[i]].class_tag.t = "nan"
    /\ \E i \in 1..Len(results) : d.course_dict[results[i]].class_tag.t # "nan"

TagLess(d, a, b) == StrLess(TagKeyOf(d, a), TagKeyOf(d, b))

SortedByTag(d, results) == SortedSeq(results, LAMBDA a, b : TagLess(d, a, b))

\* the fallback of lines 697 to 711; an exception anywhere ends in []
BasicMatches(d, query_lower) ==
    SelectSeq(d.course_ids, LAMBDA cid : TextMatches(d.course_dict[cid], query_lower))

BasicSorted(d, results, top_k) ==
    IF TagSortRaises(d, results) THEN <<>> ELSE Take(SortedByTag(d, results), top_k)

BasicFiltering(d, query_lower, top_k) ==
    IF \E cid \in DOMAIN d.course_dict : TextMatchRaises(d.course_dict[cid], query_lower)
    THEN <<>>
    ELSE BasicSorted(d, BasicMatches(d, query_lower), top_k)

\* the least common multiple of 1 .. 20: alpha * (1.0 / (i + 1)) with
\* alpha = 0.5 is RankUnit / (i + 1) in units of 1 / (2 RankUnit)
RankUnit == 232792560

RankShare(position) == RankUnit \div position

\* course_ranks[course_id] = course_ranks.get(course_id, 0) + share; the
\* entries keep the order in which the keys were inserted
AddRank(course_ranks, course_id, share) ==
    IF \E j \in 1..Len(course_ranks) : course_ranks[j].course_id = course_id
    THEN [j \in 1..Len(course_ranks) |->
            IF course_ranks[j].course_id = course_id
            THEN [course_ranks[j] EXCEPT !.score = Score(@.v + share)]
            ELSE course_ranks[j]]
    ELSE Append(course_ranks, [course_id |-> course_id, score |-> Score(share)])

\* the loop over enumerate(results): each assignment to the dict is carried
\* out before the next entry is looked at, so the dict is a value, never a
\* pending computation, when the loop goes on
RECURSIVE AddRanks(_, _, _)
AddRanks(course_ranks, results, position) ==
    IF position > Len(results) \/ ~Computed(course_ranks) THEN course_ranks
    ELSE AddRanks(AddRank(course_ranks, results[position], RankShare(position)),
                  results, position + 1)

\* reciprocal rank fusion, lines 714 to 736
Fused(semantic_results, keyword_results, top_k) ==
    Take(CourseIds(SortedDescending(
            AddRanks(AddRanks(<<>>, semantic_results, 1), keyword_results, 1))), top_k)

HybridCached(d, cache_key, results) ==
    Searched(results, [d EXCEPT !.search_cache = Put(@, cache_key, results)])

HybridResults(d, cache_key, query, top_k, semantic_results, keyword_results) ==
    IF semantic_results = <<>> /\ keyword_results = <<>>
    THEN Searched(BasicFiltering(d, StrLower(query), top_k), d)
    ELSE HybridCached(d, cache_key, Fused(semantic_results, keyword_results, top_k))

HybridByKey(d, cache_key, query, top_k, search) ==
    IF cache_key \in DOMAIN d.search_cache
    THEN Searched(d.search_cache[cache_key], d)
    ELSE HybridResults(d, cache_key, query, top_k,
                       vector_search_top(d, search.faiss, top_k),
                       keyword_search(d, query, top_k, search.bm25))

\* HarvardDatabase.hybrid_search with alpha = 0.5
hybrid_search(d, query, top_k, search) ==
    HybridByKey(d, query \o "_" \o IntToStr(top_k) \o "_0.5", query, top_k, search)

\* c.get('class_tag') != source_course.get('class_tag'): a NaN differs from all
TagDiffers(tag, source_tag) == tag.t = "nan" \/ tag # source_tag

\* sort_key of find_similar_courses: -float(score), 0 without a score
SimilarKey(course) ==
    IF IsNum(course.overall_score_course_mean)
    THEN Score(0 - course.overall_score_course_mean.v) ELSE Score(0)

OtherTags(d, courses, source) ==
    SelectSeq(courses, LAMBDA cid :
        TagDiffers(d.course_dict[cid].class_tag, d.course_dict[source].class_tag))

\* lines 853 to 868: the courses nearest to the text of the source course
SimilarByVector(d, source, top_k, faiss) ==
    Take(OtherTags(d, vector_search_top(d, faiss, top_k + 1), source), top_k)

\* the courses as sort items, each with the key of its record
Keyed(d, courses, Key(_)) ==
    [i \in 1..Len(courses) |->
        [course_id |-> courses[i], score |-> Key(d.course_dict[courses[i]])]]

SimilarSorted(d, courses) == CourseIds(ListSort(Keyed(d, courses, SimilarKey)))

\* lines 871 to 900: the courses of the same department and decade, by score
SimilarByLevel(d, source, m, top_k) ==
    IF ~m.ok THEN <<>>
    ELSE Take(SimilarSorted(d, OtherTags(d,
                get_courses_by_level_range(d, m.dept, LevelOf(StrToInt(m.num)),
                                           LevelOf(StrToInt(m.num)) + 9), source)), top_k)

SimilarTo(d, source, course_code, top_k, faiss) ==
    IF ~source.found THEN <<>>
    ELSE IF d.embedding_index /\ IsStr(d.course_dict[source.id].class_name)
    THEN SimilarByVector(d, source.id, top_k, faiss)
    ELSE SimilarByLevel(d, source.id, CodeSearch(course_code), top_k)

\* HarvardDatabase.find_similar_courses; self.model is set exactly when the
\* vector index is built
find_similar_courses(d, course_code, top_k, faiss) ==
    SimilarTo(d, get_course_by_code(d, course_code), course_code, top_k, faiss)

-----------------------------------------------------------------------------
(* CourseRecommender *)
(* What get_recommendations does to the caller is an outcome: it returns    *)
(* results or raises, and it leaves the recommender as self, the database   *)
(* as db (hybrid_search keeps a cache there) and the query_info dict it was *)
(* given as query_info.                                                     *)

\* CourseRecommender.__init__
NewCourseRecommender ==
    [recommendation_cache |-> EmptyDict,
     confidence |-> [recommended_courses |-> 0, workload_friendly_courses |-> 0,
                     highly_rated_courses |-> 0, reasons |-> 0]]

\* the recommendations dict of lines 35 to 44
NoRecommendations ==
    [recommended_courses |-> <<>>, workload_friendly_courses |-> <<>>,
     highly_rated_courses |-> <<>>, reasons |-> EmptyDict, explanation |-> <<>>,
     confidence_scores |-> EmptyDict, alternative_paths |-> <<>>,
     self_reflection |-> <<>>]

Answer(self, d, query_info, hit, results) ==
    [raised |-> FALSE, hit |-> hit, self |-> self, db |-> d, query_info |-> query_info,
     results |-> results]

Failure(self, d, query_info) ==
    [raised |-> TRUE, hit |-> FALSE, self |-> self, db |-> d, query_info |-> query_info,
     results |-> NoRecommendations]

\* a float of so many hundredths as str() and the f-strings print it
Digit(n) == CharAt(DigitChars, n + 1)

FloatStr(h) ==
    IntToStr(h \div 100) \o "." \o Digit((h % 100) \div 10)
    \o (IF h % 10 = 0 THEN "" ELSE Digit(h % 10))

\* f"{x:.2f}"
Fmt2(h) == IntToStr(h \div 100) \o "." \o Digit((h % 100) \div 10) \o Digit(h % 10)

\* f"{x:.1f}" of a Q report cell; the figures of the tables are whole tenths
Fmt1(x) == IF IsNum(x) THEN IntToStr(x.v \div 100) \o "." \o Digit((x.v % 100) \div 10)
           ELSE IF x.t = "nan" THEN "nan" ELSE "0.0"

\* a field in an f-string, for course.get(field, 'Unknown')
FieldStr(x) ==
    CASE x.t = "str" -> x.v
      [] x.t = "nan" -> "nan"
      [] x.t = "num" -> FloatStr(x.v)
      [] OTHER -> "Unknown"

PairLess(a, b) == a[1] < b[1] \/ (a[1] = b[1] /\ a[2] < b[2])

LevelStrs(course_levels) ==
    [i \in 1..Len(course_levels) |->
        IntToStr(course_levels[i][1]) \o "-" \o IntToStr(course_levels[i][2])]

ConstraintParts(constraints) ==
    (IF constraints.max_hours.t # "none"
     THEN <<"maxhrs:" \o FloatStr(constraints.max_hours.v)>> ELSE <<>>)
    \o (IF constraints.min_score.t # "none"
        THEN <<"minscore:" \o FloatStr(constraints.min_score.v)>> ELSE <<>>)

KeyPart(name, parts) == IF parts = <<>> THEN <<>> ELSE <<name \o StrJoin(parts, ",")>>

\* the key names the number of courses taken, not the courses
TakenPart(courses_taken) == "taken:" \o IntToStr(Len(courses_taken))

_generate_cache_key(query_info, student_profile) ==
    StrJoin(KeyPart("dept:", SortedSeq(query_info.departments, StrLess))
            \o KeyPart("level:", LevelStrs(SortedSeq(query_info.course_levels, PairLess)))
            \o KeyPart("term:", SortedSeq(query_info.terms, StrLess))
            \o KeyPart("constraints:", ConstraintParts(query_info.constraints))
            \o KeyPart("prefs:", SortedSeq(query_info.preferences, StrLess))
            \o (IF student_profile.concentration # ""
                THEN <<"conc:" \o student_profile.concentration>> ELSE <<>>)
            \o <<TakenPart(student_profile.courses_taken)>>,
            ";")

\* dept_map of _get_candidate_courses and of _rank_courses
recommender_dept_map ==
    ("Mathematics" :> "MATH") @@ ("Computer Science" :> "COMPSCI")
    @@ ("Economics" :> "ECON") @@ ("History" :> "HIST") @@ ("English" :> "ENG")
    @@ ("Chemistry" :> "CHEM") @@ ("Physics" :> "PHYSICS") @@ ("Psychology" :> "PSY")
    @@ ("Government" :> "GOV") @@ ("Sociology" :> "SOC")

\* candidate_courses.extend(level_courses) over the level ranges and departments
RECURSIVE RangesOf(_, _, _)
RangesOf(d, dept, course_levels) ==
    IF course_levels = <<>> THEN <<>>
    ELSE get_courses_by_level_range(d, dept, Head(course_levels)[1], Head(course_levels)[2])
         \o RangesOf(d, dept, Tail(course_levels))

RECURSIVE DeptRanges(_, _, _)
DeptRanges(d, departments, course_levels) ==
    IF departments = <<>> THEN <<>>
    ELSE RangesOf(d, Head(departments), course_levels)
         \o DeptRanges(d, Tail(departments), course_levels)

\* the primary and the secondary path, lines 855 to 886
LevelCandidates(d, query_info, student_profile) ==
    IF query_info.departments # <<>> /\ query_info.course_levels # <<>>
    THEN DeptRanges(d, query_info.departments, query_info.course_levels)
    ELSE IF query_info.course_levels # <<>> /\ student_profile.concentration # ""
    THEN DeptRanges(d, MappedDept(recommender_dept_map, student_profile.concentration),
                    query_info.course_levels)
    ELSE <<>>

\* the tertiary path, lines 889 to 901
HybridCandidates(d, query_info, search) ==
    hybrid_search(d,
                  IF query_info.preferences # <<>>
                  THEN query_info.original_query \o " " \o StrJoin(query_info.preferences, " ")
                  ELSE query_info.original_query,
                  TopK, search)

\* the number after the first dept, in any case, that blanks and digits follow
RECURSIVE DeptNumberFrom(_, _, _)
DeptNumberFrom(course_lower, dept_lower, i) ==
    IF i > Len(course_lower) THEN <<>>
    ELSE IF /\ MatchesAt(course_lower, dept_lower, i)
            /\ RunEnd(course_lower, RunEnd(course_lower, i + Len(dept_lower), "space"), "digit")
               > RunEnd(course_lower, i + Len(dept_lower), "space")
    THEN <<StrToInt(SubSeq(course_lower,
                           RunEnd(course_lower, i + Len(dept_lower), "space"),
                           RunEnd(course_lower,
                                  RunEnd(course_lower, i + Len(dept_lower), "space"),
                                  "digit") - 1))>>
    ELSE DeptNumberFrom(course_lower, dept_lower, i + 1)

RECURSIVE _get_taken_course_levels(_, _)
_get_taken_course_levels(courses_taken, dept) ==
    IF courses_taken = <<>> THEN <<>>
    ELSE DeptNumberFrom(StrLower(Head(courses_taken)), StrLower(dept), 1)
         \o _get_taken_course_levels(Tail(courses_taken), dept)

\* lines 926 to 934: the hundred above the highest level taken, or the
\* introductory courses
NextLevelCourses(d, dept, taken_levels) ==
    IF taken_levels # <<>>
    THEN get_courses_by_level_range(d, dept,
                                    (FloorDiv10(SetMax(SeqToSet(taken_levels))) + 1) * 10,
                                    (FloorDiv10(SetMax(SeqToSet(taken_levels))) + 1) * 10 + 99)
    ELSE get_courses_by_level_range(d, dept, 0, 99)

\* the quaternary path, lines 904 to 934
ProfileCandidates(d, student_profile) ==
    IF student_profile.concentration \in DOMAIN recommender_dept_map
    THEN NextLevelCourses(d, recommender_dept_map[student_profile.concentration],
                          _get_taken_course_levels(student_profile.courses_taken,
                              recommender_dept_map[student_profile.concentration]))
    ELSE <<>>

\* the course is offered in one of the terms asked for (line 942)
InSomeTerm(course, terms) ==
    \E i \in 1..Len(terms) :
        IsStr(course.term) /\ StrContains(StrLower(course.term.v), StrLower(terms[i]))

\* lines 937 to 945: the filter is dropped when it leaves nothing
KeptOrAll(kept, candidates) == IF kept # <<>> THEN kept ELSE candidates

TermCandidates(d, candidates, terms) ==
    IF terms # <<>> /\ candidates # <<>>
    THEN KeptOrAll(SelectSeq(candidates, LAMBDA cid : InSomeTerm(d.course_dict[cid], terms)),
                   candidates)
    ELSE candidates

\* lines 957 and 965: a course without the figure passes
WithinHours(course, max_hours) ==
    ~Truthy(course.mean_hours) \/ ~IsNum(course.mean_hours) \/ course.mean_hours.v <= max_hours

AboveScore(course, min_score) ==
    \/ ~Truthy(course.overall_score_course_mean)
    \/ ~IsNum(course.overall_score_course_mean)
    \/ course.overall_score_course_mean.v >= min_score

HoursCandidates(d, candidates, max_hours) ==
    IF max_hours.t = "none" THEN candidates
    ELSE SelectSeq(candidates, LAMBDA cid : WithinHours(d.course_dict[cid], max_hours.v))

ScoreCandidates(d, candidates, min_score) ==
    IF min_score.t = "none" THEN candidates
    ELSE SelectSeq(candidates, LAMBDA cid : AboveScore(d.course_dict[cid], min_score.v))

\* lines 937 to 975 on the candidates the retrieval paths found
FilteredCandidates(d, candidates, query_info) ==
    Dedup(ScoreCandidates(d,
            HoursCandidates(d, TermCandidates(d, candidates, query_info.terms),
                            query_info.constraints.max_hours),
            query_info.constraints.min_score))

FromProfile(found, query_info, student_profile) ==
    Searched(FilteredCandidates(found.db,
                                IF found.courses = <<>> /\ student_profile.concentration # ""
                                THEN ProfileCandidates(found.db, student_profile)
                                ELSE found.courses,
                                query_info),
             found.db)

FromLevels(d, candidates, query_info, student_profile, search) ==
    FromProfile(IF candidates = <<>> THEN HybridCandidates(d, query_info, search)
                ELSE Searched(candidates, d),
                query_info, student_profile)

\* CourseRecommender._get_candidate_courses (the definition of line 847,
\* which replaces that of line 231)
_get_candidate_courses(d, query_info, student_profile, search) ==
    FromLevels(d, LevelCandidates(d, query_info, student_profile),
               query_info, student_profile, search)

NoConstraints == [max_hours |-> NoneNum, min_score |-> NoneNum]

\* lines 330 to 336: max_hours * 1.5 and max(3.0, min_score * 0.8), the
\* latter rounded up to the hundredth, which is what a comparison with a
\* rating of whole hundredths sees
RelaxedConstraints(constraints) ==
    [max_hours |-> IF constraints.max_hours.t # "none"
                   THEN Num((constraints.max_hours.v * 150) \div 100)
                   ELSE constraints.max_hours,
     min_score |-> IF constraints.min_score.t # "none"
                   THEN Num(Max2(300, (constraints.min_score.v * 80 + 99) \div 100))
                   ELSE constraints.min_score]

\* lines 350 to 354
ExpandedLevels(course_levels) ==
    [i \in 1..Len(course_levels) |->
        <<Max2(0, course_levels[i][1] - 10), course_levels[i][2] + 10>>]

\* a later attempt is made only when the earlier ones found nothing
OrElse(found, Attempt(_)) == IF found.courses # <<>> THEN found ELSE Attempt(found.db)

WiderLevels(d, relaxed_query, student_profile, search) ==
    IF relaxed_query.course_levels # <<>>
    THEN _get_candidate_courses(d, [relaxed_query EXCEPT !.course_levels = ExpandedLevels(@)],
                                student_profile, search)
    ELSE Searched(<<>>, d)

\* the attempts of lines 339 to 361, in order
RelaxedAttempts(d, relaxed_query, student_profile, search) ==
    OrElse(OrElse(OrElse(
        _get_candidate_courses(d, relaxed_query, student_profile, search),
        LAMBDA d1 : _get_candidate_courses(d1, [relaxed_query EXCEPT !.constraints = NoConstraints],
                                           student_profile, search)),
        LAMBDA d2 : WiderLevels(d2, relaxed_query, student_profile, search)),
        LAMBDA d3 : hybrid_search(d3, relaxed_query.original_query, 10, search))

Relaxation(found, query_info) ==
    [courses |-> found.courses, db |-> found.db, query_info |-> query_info]

\* _get_relaxed_candidates: query_info.copy() is a shallow copy, so the
\* relaxed limits are written into the constraints dict of the caller
_get_relaxed_candidates(d, query_info, student_profile, search) ==
    Relaxation(RelaxedAttempts(d, [query_info EXCEPT !.constraints = RelaxedConstraints(@)],
                               student_profile, search),
               [query_info EXCEPT !.constraints = RelaxedConstraints(@)])

\* the code a taken course is known by: department in upper case, one
\* blank, the number; a string without a code stands for itself
TakenCode(course) ==
    With(CodeSearch(course), LAMBDA m :
        IF m.ok THEN StrUpper(m.dept) \o " " \o m.num ELSE course)

_extract_taken_course_codes(student_profile) ==
    {TakenCode(student_profile.courses_taken[i]) : i \in 1..Len(student_profile.courses_taken)}

\* course.get('class_tag') not in taken_course_codes
NotTaken(course, taken_codes) ==
    ~(IsStr(course.class_tag) /\ course.class_tag.v \in taken_codes)

\* the points of _rank_courses, in hundredths
QPoints(course) ==
    IF IsNum(course.overall_score_course_mean)
    THEN course.overall_score_course_mean.v * 10 ELSE 0

Abs(n) == IF n < 0 THEN 0 - n ELSE n

WorkloadPoints(course, preferences) ==
    IF ~IsNum(course.mean_hours) THEN 0
    ELSE IF "easy" \in SeqToSet(preferences) THEN Max2(0, 3000 - course.mean_hours.v)
    ELSE IF "hard" \in SeqToSet(preferences) THEN Min2(3000, course.mean_hours.v)
    ELSE Max2(0, 2000 - Abs(1000 - course.mean_hours.v) * 2)

\* line 452: dept in class_tag
ConcentrationPoints(course, concentration) ==
    IF /\ concentration \in DOMAIN recommender_dept_map
       /\ IsStr(course.class_tag)
       /\ StrContains(course.class_tag.v, recommender_dept_map[concentration])
    THEN 1000 ELSE 0

DifficultyPoints(course, difficulty) ==
    IF /\ IsNum(course.mean_hours)
       /\ \/ difficulty = "easy" /\ course.mean_hours.v < 1000
          \/ difficulty = "moderate" /\ course.mean_hours.v >= 800
                                     /\ course.mean_hours.v <= 1500
          \/ difficulty = "hard" /\ course.mean_hours.v > 1500
    THEN 1500 ELSE 0

\* the score of one course; without a description no format or interest
\* points are given
RankScore(course, query_info, student_profile) ==
    QPoints(course) + WorkloadPoints(course, query_info.preferences)
    + ConcentrationPoints(course, student_profile.concentration)
    + DifficultyPoints(course, query_info.semantic_aspects.difficulty)

\* confidence *= 0.9 for every course without a Q score
RECURSIVE RatedConfidence(_, _, _)
RatedConfidence(d, courses, confidence) ==
    IF courses = <<>> THEN confidence
    ELSE RatedConfidence(d, Tail(courses),
                         IF IsNum(d.course_dict[Head(courses)].overall_score_course_mean)
                         THEN confidence ELSE Scaled(confidence, 90))

\* lines 525 to 533, on the scores in descending order
SpreadConfidence(scores, confidence) ==
    IF Len(scores) < 2 THEN confidence
    ELSE IF scores[1].v - scores[2].v > 2000 THEN Min2(10000, confidence + 1000)
    ELSE IF /\ scores[1].v - scores[2].v < 500
            /\ Len(scores) >= 3
            /\ scores[2].v - scores[3].v < 500
    THEN Scaled(confidence, 90)
    ELSE confidence

ScoresOf(items) == [i \in 1..Len(items) |-> items[i].score]

RankedCourses(scored_courses, confidence) ==
    Found(CourseIds(scored_courses), SpreadConfidence(ScoresOf(scored_courses), confidence))

\* line 452 on a NaN class_tag: "in" on a float is a TypeError
RankRaises(d, courses, student_profile) ==
    /\ student_profile.concentration \in DOMAIN recommender_dept_map
    /\ \E i \in 1..Len(courses) : d.course_dict[courses[i]].class_tag.t = "nan"

_rank_courses(d, courses, query_info, student_profile) ==
    IF RankRaises(d, courses, student_profile) THEN Raise
    ELSE RankedCourses(
            SortedDescending(Keyed(d, courses, LAMBDA course :
                                Score(RankScore(course, query_info, student_profile)))),
            RatedConfidence(d, courses, 8000))

\* the number of courses recommended, and of each of the two short lists
TopRecommended == 5
TopListed == 3

\* the hours and the rating of a course as sort keys
HoursKey(course) == Score(course.mean_hours.v)
RatingKey(course) == Score(course.overall_score_course_mean.v)

\* lines 122 to 127: the candidates with an hours figure, lightest first
WorkloadFriendly(d, candidates) ==
    Take(CourseIds(ListSort(Keyed(d, SelectSeq(candidates, LAMBDA cid :
                                        IsNum(d.course_dict[cid].mean_hours)),
                                  HoursKey))),
         TopListed)

\* lines 137 to 143: the candidates with a rating, best first
HighlyRated(d, candidates) ==
    Take(CourseIds(SortedDescending(Keyed(d, SelectSeq(candidates, LAMBDA cid :
                                        IsNum(d.course_dict[cid].overall_score_course_mean)),
                                          RatingKey))),
         TopListed)

\* the reasons of lines 582 to 592, 595 to 609 and 612 to 618
RatingReason(rating) ==
    IF ~IsNum(rating) THEN <<>>
    ELSE IF rating.v >= 450 THEN <<"Highly rated (Q Score: " \o Fmt2(rating.v) \o "/5.0)">>
    ELSE IF rating.v >= 400 THEN <<"Well-rated (Q Score: " \o Fmt2(rating.v) \o "/5.0)">>
    ELSE <<"Q Score: " \o Fmt2(rating.v) \o "/5.0">>

WorkloadKind(hours, preferences) ==
    IF "easy" \in SeqToSet(preferences) /\ hours < 1000 THEN "Light"
    ELSE IF "hard" \in SeqToSet(preferences) /\ hours > 1500 THEN "Challenging"
    ELSE IF hours < 800 THEN "Light"
    ELSE IF hours < 1200 THEN "Moderate"
    ELSE "Substantial"

WorkloadReason(hours, preferences) ==
    IF ~IsNum(hours) THEN <<>>
    ELSE <<WorkloadKind(hours.v, preferences) \o " workload (" \o Fmt1(hours)
           \o " hours/week)">>

\* term.lower() in course['term'].lower() for one of the terms
TermNamed(term, terms) ==
    \E i \in 1..Len(terms) : StrContains(StrLower(term.v), StrLower(terms[i]))

TermReason(term, terms) ==
    IF ~Truthy(term) \/ (terms # <<>> /\ ~TermNamed(term, terms)) THEN <<>>
    ELSE <<"Offered in " \o FieldStr(term)>>

\* lines 621 to 630
LevelReason(m) ==
    IF ~m.ok THEN <<>>
    ELSE IF StrToInt(m.num) < 100 THEN <<"Introductory level course">>
    ELSE IF StrToInt(m.num) < 200 THEN <<"Intermediate undergraduate course">>
    ELSE <<"Advanced course">>

\* line 634; the tables carry no course_requirements
ConcentrationReason(course, concentration) ==
    IF concentration # "" /\ course.department = Str(concentration)
    THEN <<"In your concentration (" \o concentration \o ")">> ELSE <<>>

ReasonsOf(course, query_info, student_profile) ==
    RatingReason(course.overall_score_course_mean)
    \o WorkloadReason(course.mean_hours, query_info.preferences)
    \o TermReason(course.term, query_info.terms)
    \o LevelReason(CodeSearch(course.class_tag.v))
    \o ConcentrationReason(course, student_profile.concentration)

\* lines 614 and 622 on one course: .lower() of a NaN term when terms are
\* asked for, and re.search on a NaN class_tag
ReasonRaises(course, terms) ==
    /\ Truthy(course.class_tag)
    /\ \/ course.class_tag.t = "nan"
       \/ terms # <<>> /\ course.term.t = "nan"

ReasonsRaise(d, recommended_courses, query_info) ==
    \E i \in 1..Len(recommended_courses) :
        ReasonRaises(d.course_dict[recommended_courses[i]], query_info.terms)

RECURSIVE ReasonsLoop(_, _, _, _, _)
ReasonsLoop(d, reasons, recommended_courses, query_info, student_profile) ==
    IF recommended_courses = <<>> THEN reasons
    ELSE ReasonsLoop(d,
            IF Truthy(d.course_dict[Head(recommended_courses)].class_tag)
            THEN Put(reasons, d.course_dict[Head(recommended_courses)].class_tag.v,
                     ReasonsOf(d.course_dict[Head(recommended_courses)], query_info,
                               student_profile))
            ELSE reasons,
            Tail(recommended_courses), query_info, student_profile)

\* the dict of reasons by class_tag, when no course raises
_generate_recommendation_reasons(d, recommended_courses, query_info, student_profile) ==
    ReasonsLoop(d, EmptyDict, recommended_courses, query_info, student_profile)

\* lines 731 to 743, 746 to 758 and 761 to 762 for an alternative to a course
RatingComparison(similar, course) ==
    IF similar.t = "none" \/ course.t = "none" THEN <<>>
    ELSE IF IsNum(similar) /\ IsNum(course) /\ similar.v > course.v
    THEN <<"Higher rating (" \o Fmt1(similar) \o " vs " \o Fmt1(course) \o ")">>
    ELSE IF IsNum(similar) /\ IsNum(course) /\ similar.v < course.v
    THEN <<"Lower rating (" \o Fmt1(similar) \o " vs " \o Fmt1(course) \o ")">>
    ELSE <<"Similar rating (" \o Fmt1(similar) \o ")">>

WorkloadComparison(similar, course) ==
    IF similar.t = "none" \/ course.t = "none" THEN <<>>
    ELSE IF IsNum(similar) /\ IsNum(course) /\ similar.v * 10 < course.v * 8
    THEN <<"Lighter workload (" \o Fmt1(similar) \o " vs " \o Fmt1(course) \o " hours)">>
    ELSE IF IsNum(similar) /\ IsNum(course) /\ similar.v * 10 > course.v * 12
    THEN <<"Heavier workload (" \o Fmt1(similar) \o " vs " \o Fmt1(course) \o " hours)">>
    ELSE <<"Similar workload (" \o Fmt1(similar) \o " hours)">>

TermNote(term) == IF term.t = "none" THEN <<>> ELSE <<"Offered in " \o FieldStr(term)>>

Alternative(d, similar, course, course_tag) ==
    [course |-> similar, instead_of |-> course_tag,
     reason |-> "Alternative to " \o course_tag,
     detailed_reasons |->
        RatingComparison(d.course_dict[similar].overall_score_course_mean,
                         d.course_dict[course].overall_score_course_mean)
        \o WorkloadComparison(d.course_dict[similar].mean_hours,
                              d.course_dict[course].mean_hours)
        \o TermNote(d.course_dict[similar].term)]

\* a class_tag as a member of seen_courses: a NaN is the float of its own course
SeenTag(d, cid) ==
    IF d.course_dict[cid].class_tag.t = "nan" THEN [t |-> "nan", v |-> IntToStr(cid)]
    ELSE d.course_dict[cid].class_tag

Paths(alternatives, seen_courses) ==
    [alternatives |-> alternatives, seen_courses |-> seen_courses]

\* lines 714 to 768 over the courses similar to one top course
RECURSIVE SimilarLoop(_, _, _, _)
SimilarLoop(d, paths, similar_courses, course) ==
    IF similar_courses = <<>> THEN paths
    ELSE SimilarLoop(d,
            IF Truthy(d.course_dict[Head(similar_courses)].class_tag)
            THEN Paths(Append(paths.alternatives,
                              Alternative(d, Head(similar_courses), course,
                                          d.course_dict[course].class_tag.v)),
                       paths.seen_courses \cup {SeenTag(d, Head(similar_courses))})
            ELSE paths,
            Tail(similar_courses), course)

\* lines 702 to 711 for one top course that is not seen yet
SimilarUnseen(d, seen_courses, course, faiss) ==
    SelectSeq(find_similar_courses(d, d.course_dict[course].class_tag.v, TopListed, faiss),
              LAMBDA cid : SeenTag(d, cid) \notin seen_courses)

PathsFor(d, paths, course, faiss) ==
    SimilarLoop(d, Paths(paths.alternatives, paths.seen_courses \cup {SeenTag(d, course)}),
                SimilarUnseen(d, paths.seen_courses \cup {SeenTag(d, course)}, course, faiss),
                course)

\* the loop of line 694; a top course has a class_tag that is a string,
\* or the reasons have raised before
RECURSIVE PathsLoop(_, _, _, _)
PathsLoop(d, paths, top_courses, faiss) ==
    IF top_courses = <<>> THEN paths
    ELSE PathsLoop(d,
            IF /\ IsStr(d.course_dict[Head(top_courses)].class_tag)
               /\ SeenTag(d, Head(top_courses)) \notin paths.seen_courses
            THEN PathsFor(d, paths, Head(top_courses), faiss)
            ELSE paths,
            Tail(top_courses), faiss)

_find_alternative_paths(d, top_courses, faiss) ==
    PathsLoop(d, Paths(<<>>, {}), top_courses, faiss).alternatives

\* the class_tags of the courses chosen, for ', '.join
TagsOf(d, courses) == [i \in 1..Len(courses) |-> FieldStr(d.course_dict[courses[i]].class_tag)]

HighWorkload(d, recommended_courses) ==
    SelectSeq(recommended_courses, LAMBDA cid :
        IsNum(d.course_dict[cid].mean_hours) /\ d.course_dict[cid].mean_hours.v > 1200)

TermMismatches(d, recommended_courses, terms) ==
    SelectSeq(recommended_courses, LAMBDA cid :
        Truthy(d.course_dict[cid].term) /\ ~TermNamed(d.course_dict[cid].term, terms))

\* line 832 on a NaN term, and ', '.join over a class_tag that is no string
ReflectionRaises(d, recommended_courses, query_info) ==
    \/ /\ "easy" \in SeqToSet(query_info.preferences)
       /\ \E i \in 1..Len(HighWorkload(d, recommended_courses)) :
            ~IsStr(d.course_dict[HighWorkload(d, recommended_courses)[i]].class_tag)
    \/ /\ query_info.terms # <<>>
       /\ \E i \in 1..Len(recommended_courses) :
            \/ d.course_dict[recommended_courses[i]].term.t = "nan"
            \/ /\ Truthy(d.course_dict[recommended_courses[i]].term)
               /\ ~TermNamed(d.course_dict[recommended_courses[i]].term, query_info.terms)
               /\ ~IsStr(d.course_dict[recommended_courses[i]].class_tag)

JoinedNote(head, tags) == IF tags = <<>> THEN <<>> ELSE <<head \o StrJoin(tags, ", ")>>

\* CourseRecommender._perform_self_reflection, when it does not raise; the
\* tables carry no course_requirements
RecommenderReflection(d, recommended_courses, confidence, query_info, student_profile) ==
    NoteIf(Len(recommended_courses) = 0, "No courses found matching the criteria")
    \o NoteIf(Len(recommended_courses) \in 1..2, "Limited number of courses match the criteria")
    \o NoteIf(confidence < 7000,
              "Low confidence in these recommendations, may need more specific criteria")
    \o (IF "easy" \in SeqToSet(query_info.preferences)
        THEN JoinedNote("Note: Some recommended courses have higher workload than requested: ",
                        TagsOf(d, HighWorkload(d, recommended_courses)))
        ELSE <<>>)
    \o NoteIf(/\ student_profile.concentration # ""
              /\ recommended_courses # <<>>
              /\ \A i \in 1..Len(recommended_courses) :
                    d.course_dict[recommended_courses[i]].department
                        # Str(student_profile.concentration),
              "None of the recommendations are in your concentration ("
              \o student_profile.concentration \o ")")
    \o (IF query_info.terms # <<>> /\ recommended_courses # <<>>
        THEN JoinedNote("Some courses may not be offered in the requested term: ",
                        TagsOf(d, TermMismatches(d, recommended_courses, query_info.terms)))
        ELSE <<>>)

\* the explanation entries of get_recommendations
StartNotes ==
    <<"Starting recommendation process based on query and student profile...">>

SearchNotes == StartNotes \o <<"Finding candidate courses based on query criteria...">>

RelaxNotes ==
    SearchNotes \o <<"No candidate courses found matching the basic criteria.",
                     "Expanding search with relaxed criteria...">>

CountNote(head, n, tail) == head \o IntToStr(n) \o tail

ListNote(n, tail, nothing) ==
    IF n > 0 THEN CountNote("Found ", n, tail) ELSE nothing

\* lines 106 to 172
RankingNotes(d, candidates, ranked_courses, workload_friendly, highly_rated, alternatives) ==
    << CountNote("After filtering out courses already taken, ", Len(candidates),
                 " candidates remain."),
       "Ranking courses based on student profile and preferences...",
       IF ranked_courses # <<>>
       THEN "Successfully ranked courses. Top recommendation: "
            \o FieldStr(d.course_dict[ranked_courses[1]].class_tag) \o " - "
            \o FieldStr(d.course_dict[ranked_courses[1]].class_name)
       ELSE "Failed to rank courses appropriately.",
       "Identifying courses with manageable workload...",
       ListNote(Len(workload_friendly), " courses with manageable workload.",
                "No courses with workload information available."),
       "Identifying highly-rated courses...",
       ListNote(Len(highly_rated), " highly-rated courses.",
                "No courses with rating information available."),
       "Generating explanations for recommendations...",
       "Identifying alternative course paths...",
       ListNote(Len(alternatives), " alternative course paths.",
                "No alternative course paths identified."),
       "Performing self-reflection on recommendations..." >>

\* self.confidence as lines 110 to 159 leave it
RankedConfidence(confidence, ranked, workload_friendly, highly_rated) ==
    [confidence EXCEPT !.recommended_courses = ranked.confidence,
                       !.workload_friendly_courses =
                            IF workload_friendly # <<>> THEN 9000 ELSE 0,
                       !.highly_rated_courses = IF highly_rated # <<>> THEN 9000 ELSE 0]

ReasonedConfidence(confidence, reasons) ==
    [confidence EXCEPT !.reasons = IF DOMAIN reasons # {} THEN 8500 ELSE 0]

\* self.recommendation_cache[cache_key] = recommendations, and the return
Stored(self, d, query_info, cache_key, recommendations) ==
    Answer([self EXCEPT !.recommendation_cache = Put(@, cache_key, recommendations)],
           d, query_info, FALSE, recommendations)

\* lines 172 to 185
Reflected_recommendations(self, d, query_info, student_profile, cache_key, recommendations) ==
    IF ReflectionRaises(d, recommendations.recommended_courses, query_info)
    THEN Failure(self, d, query_info)
    ELSE Stored(self, d, query_info, cache_key,
                [recommendations EXCEPT
                    !.self_reflection =
                        RecommenderReflection(d, recommendations.recommended_courses,
                                              self.confidence.recommended_courses,
                                              query_info, student_profile),
                    !.confidence_scores = self.confidence])

\* lines 151 to 170, when the reasons do not raise
WithReasons(self, d, query_info, student_profile, cache_key, candidates, explanation, ranked, workload_friendly, highly_rated, reasons, alternatives) ==
    Reflected_recommendations(
        [self EXCEPT !.confidence = ReasonedConfidence(@, reasons)],
        d, query_info, student_profile, cache_key,
        [recommended_courses |-> Take(ranked.courses, TopRecommended),
         workload_friendly_courses |-> workload_friendly,
         highly_rated_courses |-> highly_rated,
         reasons |-> reasons,
         explanation |-> explanation
                         \o RankingNotes(d, candidates, ranked.courses, workload_friendly,
                                         highly_rated, alternatives),
         confidence_scores |-> EmptyDict,
         alternative_paths |-> alternatives,
         self_reflection |-> <<>>])

\* lines 110 to 164
WithLists(self, d, query_info, student_profile, search, cache_key, candidates, explanation, ranked, workload_friendly, highly_rated) ==
    IF ReasonsRaise(d, Take(ranked.courses, TopRecommended), query_info)
    THEN Failure(self, d, query_info)
    ELSE WithReasons(self, d, query_info, student_profile, cache_key, candidates,
                     explanation, ranked, workload_friendly, highly_rated,
                     _generate_recommendation_reasons(d, Take(ranked.courses, TopRecommended),
                                                      query_info, student_profile),
                     _find_alternative_paths(d, Take(ranked.courses, TopListed), search.faiss))

\* lines 107 to 144
WithRanking(self, d, query_info, student_profile, search, cache_key, candidates, explanation, ranked) ==
    IF ranked.raised THEN Failure(self, d, query_info)
    ELSE WithLists([self EXCEPT !.confidence =
                        RankedConfidence(@, ranked, WorkloadFriendly(d, candidates),
                                         HighlyRated(d, candidates))],
                   d, query_info, student_profile, search, cache_key, candidates,
                   explanation, ranked, WorkloadFriendly(d, candidates),
                   HighlyRated(d, candidates))

\* lines 97 to 107, on the candidates that are not taken
WithRemaining(self, d, query_info, student_profile, search, cache_key, candidates, explanation) ==
    IF candidates = <<>>
    THEN Answer(self, d, query_info, FALSE,
                [NoRecommendations EXCEPT
                    !.explanation = explanation
                        \o <<"All candidate courses have already been taken by the student.">>,
                    !.self_reflection =
                        <<"Student has already taken all courses matching the criteria">>])
    ELSE WithRanking(self, d, query_info, student_profile, search, cache_key, candidates,
                     explanation, _rank_courses(d, candidates, query_info, student_profile))

\* lines 91 to 95
WithCandidates(self, d, query_info, student_profile, search, cache_key, candidates, explanation) ==
    WithRemaining(self, d, query_info, student_profile, search, cache_key,
                  SelectSeq(candidates, LAMBDA cid :
                      NotTaken(d.course_dict[cid],
                               _extract_taken_course_codes(student_profile))),
                  explanation)

\* lines 77 to 86
WithRelaxed(self, student_profile, search, cache_key, relaxed) ==
    IF relaxed.courses = <<>>
    THEN Answer(self, relaxed.db, relaxed.query_info, FALSE,
                [NoRecommendations EXCEPT
                    !.explanation = RelaxNotes
                        \o <<"Still no candidates found even with relaxed criteria.">>,
                    !.self_reflection = <<"No courses found matching the criteria">>])
    ELSE WithCandidates(self, relaxed.db, relaxed.query_info, student_profile, search,
                        cache_key, relaxed.courses,
                        RelaxNotes \o <<CountNote("Found ", Len(relaxed.courses),
                                                  " courses with relaxed criteria.")>>)

\* lines 70 to 88
WithFound(self, query_info, student_profile, search, cache_key, found) ==
    IF found.courses = <<>>
    THEN WithRelaxed(self, student_profile, search, cache_key,
                     _get_relaxed_candidates(found.db, query_info, student_profile, search))
    ELSE WithCandidates(self, found.db, query_info, student_profile, search, cache_key,
                        found.courses,
                        SearchNotes \o <<CountNote("Found ", Len(found.courses),
                                                   " candidate courses.")>>)

\* lines 60 to 66: the cached dict gets the new explanation in front of its
\* own and is returned
CachedAnswer(self, d, query_info, cache_key, cached_rec) ==
    Answer([self EXCEPT !.recommendation_cache = Put(@, cache_key, cached_rec)],
           d, query_info, TRUE, cached_rec)

\* lines 58 to 70
ByCacheKey(self, d, query_info, student_profile, search, cache_key) ==
    IF cache_key \in DOMAIN self.recommendation_cache
    THEN CachedAnswer(self, d, query_info, cache_key,
                      [self.recommendation_cache[cache_key] EXCEPT
                          !.explanation =
                              StartNotes \o <<"Using cached recommendations for similar query.">>
                              \o @])
    ELSE WithFound(self, query_info, student_profile, search, cache_key,
                   _get_candidate_courses(d, query_info, student_profile, search))

get_recommendations_unguarded(d, self, query_info, student_profile, search) ==
    ByCacheKey(self, d, query_info, student_profile, search,
               _generate_cache_key(query_info, student_profile))

\* CourseRecommender.get_recommendations on the recommender self over the
\* database d, with search what the search libraries answer if asked
get_recommendations(d, self, query_info, student_profile, search) ==
    IF query_info.intent # "course_recommendation"
    THEN Answer(self, d, query_info, FALSE,
                [NoRecommendations EXCEPT
                    !.explanation =
                        <<"Query intent is not asking for course recommendations.">>])
    ELSE ByCacheKey(self, d, query_info, student_profile, search,
                    _generate_cache_key(query_info, student_profile))

\* no call of get_recommendations yet
CRIdle == cr = NewCourseRecommender /\ cr_call = NoCall /\ cr_calls = 0

\* no processing run of the chat yet
NoTurn == [ran |-> FALSE]

\* st.session_state before chat_interface has run: the history is empty, and
\* lines 557 to 564 give last_query_info None and processing_query False
NewSession ==
    [chat_history |-> <<>>, processing_query |-> FALSE, last_query_info |-> NoQueryInfo,
     turn |-> NoTurn]

ChatIdle == chat = NewSession

-----------------------------------------------------------------------------
(* The index under process_courses: SpecDB *)

\* rows of courses_df a table may hold
MaxRows == 3
\* the largest course number the level lookups are tried with
MaxLevelN == 140

\* class_tag and term of the rows tried: a code shared by two offerings, a
\* lower-case tag without a space, a lettered number, a missing term, a
\* missing tag
TagTermChoices ==
    { <<Str("MATH 131"), Str("Fall 2025")>>,
      <<Str("MATH 131"), Str("2025 Fall")>>,
      <<Str("math136"), Str("Spring 2025")>>,
      <<Str("MATH 21A"), Str("fall 2025")>>,
      <<Str("CS 50"), NaNStr>>,
      <<NaNStr, Str("Fall 2025")>> }

DBRows ==
    { Row(id, name, tt[1], tt[2], NaNNum, NaNNum) :
        id \in 1..MaxRows, name \in {Str("Course"), NaNStr}, tt \in TagTermChoices }

InitDB == db = EmptyDB /\ QPIdle /\ CFIdle /\ CRIdle /\ ThreadsIdle /\ ChatIdle

\* process_courses meets one more row of the table: every reachable db is the
\* index process_courses builds for some table of at most MaxRows courses
ProcessCourses ==
    \E row \in DBRows :
        /\ Cardinality(db.processed_ids) < MaxRows
        /\ db' = ProcessRow(db, row)
        /\ UNCHANGED <<qp_vars, cf_vars, cr_vars, th_vars, chat_vars>>

NextDB == ProcessCourses

SpecDB == InitDB /\ [][NextDB]_vars

\* the courses of the table that process_courses filed under a code
IndexedIds == { cid \in DOMAIN db.course_dict :
                    /\ IsStr(db.course_dict[cid].class_tag)
                    /\ CodeSearch(db.course_dict[cid].class_tag.v).ok }

\* department and number of an indexed course, as parsed from its class_tag
DeptOf(cid) == StrUpper(CodeSearch(db.course_dict[cid].class_tag.v).dept)
NumberOf(cid) == StrToInt(CodeSearch(db.course_dict[cid].class_tag.v).num)

\* C3: after process_courses, get_course_by_code on the normalized code of any
\* indexed course (upper-case department, one space, its number) returns that
\* very course, whatever else the table holds.
C3_ByCodeReturnsCourse ==
    \A cid \in IndexedIds :
        get_course_by_code(db, DeptOf(cid) \o " " \o IntToStr(NumberOf(cid)))
            = [found |-> TRUE, id |-> cid]

\* C4: for every indexed course of department d and every n,
\* get_courses_by_level_range(d, n, n) contains the course iff the number
\* parsed from its class_tag is n.
C4_LevelRangeExact ==
    \A cid \in IndexedIds :
        LET d == DeptOf(cid)
            num == NumberOf(cid)
        IN  \A n \in 0..MaxLevelN :
                (cid \in SeqToSet(get_courses_by_level_range(db, d, n, n))) <=> (num = n)

\* two courses of one department and one decade are indexed, and the lookup at
\* the number of the first returns it and not the second
C4_Witness ==
    \E c1, c2 \in IndexedIds :
        /\ DeptOf(c1) = DeptOf(c2)
        /\ LevelOf(NumberOf(c1)) = LevelOf(NumberOf(c2))
        /\ NumberOf(c1) # NumberOf(c2)
        /\ c1 \in SeqToSet(get_courses_by_level_range(db, DeptOf(c1), NumberOf(c1), NumberOf(c1)))
        /\ c2 \notin SeqToSet(get_courses_by_level_range(db, DeptOf(c1), NumberOf(c1), NumberOf(c1)))

\* token is one of the whitespace-separated tokens of s, case-insensitively
HasToken(s, token) == StrLower(token) \in SeqToSet(StrSplit(StrLower(s)))

\* C5: the term lookup with the partial term "Fall" returns every indexed
\* course whose stored term holds "Fall" as a token, case-insensitively and
\* whatever the token order ("Fall 2025", "2025 Fall").
C5_PartialTermLookup ==
    \A cid \in DOMAIN db.course_dict :
        (IsStr(db.course_dict[cid].term) /\ HasToken(db.course_dict[cid].term.v, "Fall"))
            => cid \in SeqToSet(get_courses_by_term(db, "Fall"))

-----------------------------------------------------------------------------
(* The interpreter over a session: SpecQP *)

\* the query texts and chat histories the interpreter is run on
QPQueries ==
    { "Compare MATH 21a and MATH 23b",
      "recommend MATH 131",
      "math 131",
      "what about something easier",
      "What's a good introductory CS course?",
      "easy math under 8 hours in fall",
      "math 130s",
      "100-level math",
      "math 130 to 139",
      "math 130-139" }

QPHistories ==
    { <<>>,
      <<Msg("user", "recommend a math course"), Msg("assistant", "I recommend MATH 131.")>> }

\* Extracted on the inputs of the model, computed once and kept as a table
RECURSIVE ExtractedTable(_)
ExtractedTable(inputs) ==
    IF inputs = {} THEN EmptyDict
    ELSE LET in == CHOOSE x \in inputs : TRUE
         IN  (in :> Extracted(in[1], in[2], in[3])) @@ ExtractedTable(inputs \ {in})

ExtractedMemo == ExtractedTable(QPQueries \X QPHistories \X HashSeeds)

InitQP ==
    /\ db = EmptyDB
    /\ qp_seed \in HashSeeds
    /\ qp_last = NoQueryInfo
    /\ qp_run = NoRun
    /\ qp_self = NoInstance
    /\ CFIdle
    /\ CRIdle
    /\ ThreadsIdle
    /\ ChatIdle

\* the calls of process() made on one QueryProcessor instance
MaxProcessCalls == 2

\* QueryProcessor(query, chat_history, last_query_info).process()
ProcessQuery ==
    \E query \in QPQueries, chat_history \in QPHistories :
        /\ qp_run' = With(ExtractedMemo[<<query, chat_history, qp_seed>>], LAMBDA x :
                        [ran |-> TRUE, query |-> query, chat_history |-> chat_history,
                         last_query_info |-> qp_last,
                         extracted |-> x,
                         out |-> Inherit(x, qp_last)])
        /\ qp_self' = NewInstance(qp_seed, qp_run'.out)
        /\ UNCHANGED <<db, qp_seed, qp_last, cf_vars, cr_vars, th_vars, chat_vars>>

\* process() called again on the QueryProcessor of the latest run
ProcessAgain ==
    /\ qp_run.ran
    /\ qp_self.calls >= 1
    /\ qp_self.calls < MaxProcessCalls
    /\ qp_self.seed = qp_seed
    /\ qp_self' = ProcessedAgain(qp_self, qp_run.out)
    /\ UNCHANGED <<db, qp_seed, qp_last, qp_run, cf_vars, cr_vars, th_vars, chat_vars>>

StoreLast ==
    /\ qp_run.ran
    /\ qp_last' = SomeQueryInfo(qp_run.out)
    /\ UNCHANGED <<db, qp_seed, qp_run, qp_self, cf_vars, cr_vars, th_vars, chat_vars>>

\* the interpreter's process is started anew: string hashing gets a new seed
Restart ==
    /\ qp_seed' \in HashSeeds \ {qp_seed}
    /\ UNCHANGED <<db, qp_last, qp_run, qp_self, cf_vars, cr_vars, th_vars, chat_vars>>

NextQP == ProcessQuery \/ ProcessAgain \/ StoreLast \/ Restart

SpecQP == InitQP /\ [][NextQP]_vars

\* C6: two runs of the interpreter on equal query text, chat history and
\* previous query_info produce identical query_info, list order included.
C6_SameInputsSameQueryInfo ==
    [][(/\ qp_run.ran /\ qp_run'.ran
        /\ qp_run'.query = qp_run.query
        /\ qp_run'.chat_history = qp_run.chat_history
        /\ qp_run'.last_query_info = qp_run.last_query_info)
       => qp_run'.out = qp_run.out]_vars

\* C7: every value of confidence_scores of the query_info process returns
\* lies in [0, 1].
C7_ConfidenceInUnitInterval ==
    qp_run.ran =>
        \A k \in DOMAIN qp_run.out.confidence_scores :
            /\ qp_run.out.confidence_scores[k] >= 0
            /\ qp_run.out.confidence_scores[k] <= 10000

\* C8: a field copied forward from the previous query_info is reported with a
\* confidence no larger than the one the previous query_info carried for it.
C8_InheritedConfidenceNotLarger ==
    qp_run.ran =>
        \A f \in InheritedFields(qp_run.extracted, qp_run.last_query_info) :
            qp_run.out.confidence_scores[ConfidenceKey(f)]
                <= qp_run.last_query_info.info.confidence_scores[ConfidenceKey(f)]

\* the chat history whose last turn is the assistant recommending MATH 131
RecommendedHistory ==
    <<Msg("user", "recommend a math course"), Msg("assistant", "I recommend MATH 131.")>>

\* the interpreter ran on the query text after the recommending turn
RanAfterRecommendation(query) ==
    /\ qp_run.ran
    /\ qp_run.query = query
    /\ qp_run.chat_history = RecommendedHistory

\* C16: for the follow-up "what about something easier" after an assistant
\* turn that recommended MATH 131, the interpreter returns is_followup true,
\* preferences that contain "easy" and referenced_courses that contain
\* "MATH 131".
C16_EasierFollowupPrefersEasy ==
    RanAfterRecommendation("what about something easier") =>
        /\ qp_run.out.is_followup
        /\ "easy" \in SeqToSet(qp_run.out.preferences)
        /\ "MATH 131" \in SeqToSet(qp_run.out.referenced_courses)

\* the interpreter ran on the query text in a new conversation
RanFirst(query) ==
    /\ qp_run.ran
    /\ qp_run.query = query
    /\ qp_run.chat_history = <<>>
    /\ qp_run.last_query_info = NoQueryInfo

\* C17: for "What's a good introductory CS course?" the interpreter returns
\* the intent course_recommendation and departments with the one entry
\* COMPSCI, and course_levels that are empty or of low confidence (below
\* 0.5, 5000 ten-thousandths).
C17_IntroCSOneDepartment ==
    RanFirst("What's a good introductory CS course?") =>
        /\ qp_run.out.intent = "course_recommendation"
        /\ qp_run.out.departments = <<"COMPSCI">>
        /\ \/ qp_run.out.course_levels = <<>>
           \/ qp_run.out.confidence_scores.course_levels < 5000

\* the fields of a query_info that name something the query asked for
PopulatedFields(query_info) ==
    {f \in {"departments", "course_levels", "course_codes", "terms",
            "referenced_courses", "preferences"} : query_info[f] # <<>>}
    \cup (IF \E f \in {"max_hours", "min_score"} : query_info.constraints[f].t # "none"
          THEN {"constraints"} ELSE {})
    \cup (IF query_info.is_followup THEN {"is_followup"} ELSE {})
    \cup (IF query_info.intent # "unknown" THEN {"intent"} ELSE {})

\* C21: in every query_info process returns, each populated field
\* (departments, course_levels, course_codes, terms, constraints,
\* preferences, is_followup, referenced_courses, intent) has its own entry in
\* confidence_scores, and the entry is greater than 0.
C21_PopulatedFieldsHaveConfidence ==
    qp_run.ran =>
        \A f \in PopulatedFields(qp_run.out) :
            /\ f \in DOMAIN qp_run.out.confidence_scores
            /\ qp_run.out.confidence_scores[f] > 0

\* the interpreter ran on the query text
Ran(query) == qp_run.ran /\ qp_run.query = query

\* C23: level extraction maps the decade shorthand "130s" to exactly the one
\* range (130, 139), "100-level" to exactly (100, 199), and the explicit
\* ranges "130 to 139" and "130-139" to exactly (130, 139); no other range
\* is produced for the same mention.
C23_LevelMentionsGiveOneRange ==
    /\ Ran("math 130s") => qp_run.extracted.course_levels = << <<130, 139>> >>
    /\ Ran("100-level math") => qp_run.extracted.course_levels = << <<100, 199>> >>
    /\ Ran("math 130 to 139") => qp_run.extracted.course_levels = << <<130, 139>> >>
    /\ Ran("math 130-139") => qp_run.extracted.course_levels = << <<130, 139>> >>

\* C28: process() called a second time on one QueryProcessor instance returns
\* a query_info equal to the one the first call returned, with the same
\* self_reflection lists and no note added twice, and the query_info the
\* first call returned still reads as it did when it was returned.
C28_SecondCallEqualsFirst ==
    qp_self.calls >= 2 =>
        /\ qp_self.latest = qp_run.out
        /\ qp_self.first = qp_run.out

-----------------------------------------------------------------------------
(* Retrieval on one CourseFinder: SpecCF *)

\* courses of the full table, and find_courses calls made on one CourseFinder
CFTableSize == 13
MaxCalls == 2

\* the class_tag of row i of the full table: two lettered numbers, one
\* course of another department, and MATH 131 onwards
FullTag(i) ==
    CASE i = 1 -> "MATH 21A"
      [] i = 2 -> "MATH 23B"
      [] i = 3 -> "CS 50"
      [] OTHER -> "MATH " \o IntToStr(127 + i)

\* a table with every field filled in but the Q reports of every fifth
\* course; ratings repeat, so that courses tie in the ranking
FullRows ==
    [i \in 1..CFTableSize |->
        [Row(i, Str("Course"), Str(FullTag(i)),
             Str(IF i % 2 = 1 THEN "Fall 2025" ELSE "2026 Spring"),
             IF i % 5 = 0 THEN NaNNum ELSE Num(400 + 10 * (i % 3)),
             IF i % 5 = 0 THEN NaNNum ELSE Num(600 + 200 * (i % 4)))
         EXCEPT !.days = Str("MW"), !.start_times = Str("9:00"), !.end_times = Str("10:15")]]

\* a table with gaps: a course without a term, one without a class_tag and
\* without a rating, and no days or times columns
RaggedRows ==
    << [Row(1, Str("Real Analysis"), Str("MATH 131"), NaNStr, Num(450), Num(800))
        EXCEPT !.department = Str("Mathematics")],
       [Row(2, Str("Seminar"), NaNStr, Str("Fall 2025"), NaNNum, Num(600))
        EXCEPT !.department = Str("Mathematics")],
       [Row(3, Str("Algebra"), Str("MATH 136"), Str("2026 Spring"), Num(420), Num(1200))
        EXCEPT !.department = Str("Mathematics")] >>

\* a courses_df without the Q report columns
BareRows ==
    << Row(1, Str("Calculus"), Str("MATH 21A"), Str("Fall 2025"), NoneNum, NoneNum),
       Row(2, Str("Linear Algebra"), Str("MATH 23B"), Str("2026 Spring"), NoneNum, NoneNum),
       Row(3, Str("Real Analysis"), Str("MATH 131"), Str("Fall 2025"), NoneNum, NoneNum) >>

\* the Q reports of the courses of BareRows: two of the first course, one
\* without hours of the second
BareQReports ==
    QReports(<< QReport(1, Num(800)), QReport(2, NaNNum), QReport(1, Num(900)),
                QReport(3, Num(1200)) >>)

\* the databases whose courses_df has the Q report columns, with and without
\* the search indexes
CFDatabases ==
    { build_indexes(ProcessAll(EmptyDB, rows), available, available) :
        rows \in {FullRows, RaggedRows}, available \in BOOLEAN }

\* the databases whose Q reports are the q_reports_df of the constructor
CFBareDatabases ==
    { build_indexes(ProcessAll([EmptyDB EXCEPT !.q_reports_df = BareQReports], BareRows),
                    available, available) : available \in BOOLEAN }

NoProfile == Profile("", <<>>)
MathProfile == Profile("Mathematics", <<"MATH 131">>)
TakenProfile == Profile("", <<"MATH 131">>)

\* the query texts and the profiles find_courses is called for
CFCases ==
    { <<"math courses", NoProfile>>,
      <<"list all math courses", NoProfile>>,
      <<"math courses in fall", NoProfile>>,
      <<"physics courses", MathProfile>>,
      <<"Compare MATH 21a and MATH 23b", NoProfile>>,
      <<"easy courses", TakenProfile>>,
      <<"well-rated math courses", NoProfile>>,
      <<"130-139 courses", MathProfile>> }

\* query_info as the interpreter gives it for the query text of each case
CFInputs ==
    { [query_info |-> process(c[1], <<>>, NoQueryInfo, 0), student_profile |-> c[2]] :
        c \in CFCases }

\* steps 1 to 4 of find_courses for every database and input, computed once
RECURSIVE StructuredTable(_)
StructuredTable(keys) ==
    IF keys = {} THEN EmptyDict
    ELSE LET key == CHOOSE k \in keys : TRUE
         IN  (key :> Structured(key[1], key[2].query_info, key[2].student_profile))
             @@ StructuredTable(keys \ {key})

\* the databases as find_courses calls leave them
CFAssigned ==
    CFDatabases \cup CFBareDatabases
    \cup {SpecificAssigned(d, in.query_info) : d \in CFBareDatabases, in \in CFInputs}

StructuredMemo == StructuredTable(CFAssigned \X CFInputs)

\* the rankings the vector index may answer with over n vectors: nearest
\* first in the order of the index or against it, padded with -1 to top_k
FaissRanking(n, rising) ==
    [k \in 1..TopK |-> IF k > n THEN -1 ELSE IF rising THEN k - 1 ELSE n - k]

FaissAnswers(n) ==
    {FaissFailure} \cup {FaissIndices(FaissRanking(n, rising)) : rising \in BOOLEAN}

InitCF ==
    /\ db \in CFDatabases \cup CFBareDatabases
    /\ QPIdle
    /\ CFIdle
    /\ CRIdle
    /\ ThreadsIdle
    /\ ChatIdle

\* the first results kept for the database d1: those of the calls made since
\* a course record last changed
FirstOver(first, d, d1) == IF d1 = d THEN first ELSE EmptyDict

\* one call of find_courses on the CourseFinder, step 1 of which may write
\* to course records; cf_first keeps what the first call with each input
\* returned over the database as it now is
FindCourses ==
    \E input \in CFInputs, faiss \in FaissAnswers(Len(db.course_ids_for_embeddings)) :
        /\ cf_calls < MaxCalls
        /\ db' = SpecificAssigned(db, input.query_info)
        /\ \E out \in {FromStructured(db', cf, input.query_info, input.student_profile, faiss,
                                      StructuredMemo[<<db', input>>])} :
            /\ cf' = out.self
            /\ cf_call' = [made |-> TRUE, input |-> input, faiss |-> faiss,
                           repeated |-> input \in DOMAIN FirstOver(cf_first, db, db'),
                           raised |-> out.raised, results |-> out.results]
            /\ cf_first' = IF out.raised \/ input \in DOMAIN FirstOver(cf_first, db, db')
                           THEN FirstOver(cf_first, db, db')
                           ELSE Put(FirstOver(cf_first, db, db'), input,
                                    out.results.relevant_courses)
        /\ cf_calls' = cf_calls + 1
        /\ UNCHANGED <<qp_vars, cr_vars, th_vars, chat_vars>>

\* a new CourseFinder is made for the database
NewFinder ==
    /\ cf_call.made
    /\ cf' = NewCourseFinder
    /\ cf_call' = NoCall
    /\ cf_first' = EmptyDict
    /\ cf_calls' = 0
    /\ UNCHANGED <<db, qp_vars, cr_vars, th_vars, chat_vars>>

NextCF == FindCourses \/ NewFinder

SpecCF == InitCF /\ [][NextCF]_vars

\* the latest call returned results for a query without an "all" signal
AnsweredCapped ==
    /\ cf_call.made /\ ~cf_call.raised
    /\ ~AsksForAll(StrLower(cf_call.input.query_info.original_query))

\* C2: find_courses returns at most 10 relevant_courses unless the original
\* query contains "all", "every" or "list all".
C2_AtMostTenUnlessAll ==
    AnsweredCapped => Len(cf_call.results.relevant_courses) <= 10

\* a query without the signal whose bucket held more than ten courses
C2_Witness ==
    /\ AnsweredCapped
    /\ Len(cf_call.results.filtered_courses) > 10
    /\ Len(cf_call.results.relevant_courses) = 10

SemanticUnavailable ==
    /\ cf_call.made /\ ~cf_call.raised
    /\ ~db.embedding_index \/ cf_call.faiss.failed

\* C11: when the semantic search is unavailable or fails, find_courses
\* returns an empty semantic_matches list with confidence exactly 0 for the
\* semantic bucket, and no exception of the search reaches the caller.
C11_UnavailableSemanticIsZero ==
    SemanticUnavailable =>
        /\ cf_call.results.semantic_matches = <<>>
        /\ cf_call.results.confidence_scores.semantic_matches = 0

\* the first bucket of the results that is not empty, in the order specific,
\* filtered, semantic, level, term
SeedBucket(results) ==
    IF results.specific_courses # <<>> THEN results.specific_courses
    ELSE IF results.filtered_courses # <<>> THEN results.filtered_courses
    ELSE IF results.semantic_matches # <<>> THEN results.semantic_matches
    ELSE IF results.level_courses # <<>> THEN results.level_courses
    ELSE results.term_courses

\* relevant_courses are the courses of the bucket seed: all of them when the
\* query asks for all or they are within the limit, else as many as the limit
SeededFrom(relevant_courses, seed, query_lower) ==
    /\ SeqToSet(relevant_courses) \subseteq SeqToSet(seed)
    /\ (AsksForAll(query_lower) \/ Cardinality(SeqToSet(seed)) <= RelevantLimit)
            => SeqToSet(relevant_courses) = SeqToSet(seed)
    /\ ~AsksForAll(query_lower)
            => Len(relevant_courses) = Min2(RelevantLimit, Cardinality(SeqToSet(seed)))

\* C12: relevant_courses is seeded from the first non-empty bucket in the
\* order specific, filtered, semantic, level, term; every course of the
\* specific bucket is in the working set whichever bucket seeded it; when
\* all five buckets are empty the result is the empty list with confidence 0.
C12_SeededFromFirstBucket ==
    (cf_call.made /\ ~cf_call.raised) =>
        /\ SeededFrom(cf_call.results.relevant_courses, SeedBucket(cf_call.results),
                      StrLower(cf_call.input.query_info.original_query))
        /\ SeqToSet(cf_call.results.specific_courses)
                \subseteq SeqToSet(SeedBucket(cf_call.results))
        /\ SeedBucket(cf_call.results) = <<>>
                => /\ cf_call.results.relevant_courses = <<>>
                   /\ cf_call.results.confidence_scores.relevant_courses = 0

\* the specific bucket seeded the result although the filtered bucket held
\* other courses
C12_Witness ==
    /\ cf_call.made /\ ~cf_call.raised
    /\ cf_call.results.specific_courses # <<>>
    /\ ~(SeqToSet(cf_call.results.filtered_courses)
            \subseteq SeqToSet(cf_call.results.specific_courses))
    /\ SeqToSet(cf_call.results.relevant_courses) = SeqToSet(cf_call.results.specific_courses)

\* the courses of all five retrieval buckets
BucketUnion(results) ==
    SeqToSet(results.specific_courses) \cup SeqToSet(results.filtered_courses)
    \cup SeqToSet(results.semantic_matches) \cup SeqToSet(results.level_courses)
    \cup SeqToSet(results.term_courses)

\* C13: relevant_courses is free of duplicates and a subset of the union of
\* the five buckets, and when the query holds an "all" signal its length is
\* the number of distinct courses of that union.
C13_AllReturnsUnion ==
    (cf_call.made /\ ~cf_call.raised) =>
        /\ Cardinality(SeqToSet(cf_call.results.relevant_courses))
                = Len(cf_call.results.relevant_courses)
        /\ SeqToSet(cf_call.results.relevant_courses) \subseteq BucketUnion(cf_call.results)
        /\ AsksForAll(StrLower(cf_call.input.query_info.original_query))
                => Len(cf_call.results.relevant_courses)
                        = Cardinality(BucketUnion(cf_call.results))

\* the latest call answered the comparison of the two lettered courses
ComparedLettered ==
    /\ cf_call.made /\ ~cf_call.raised
    /\ cf_call.input.query_info.original_query = "Compare MATH 21a and MATH 23b"

\* the courses of the index whose class_tag is one of the codes
CoursesTagged(d, codes) ==
    {cid \in DOMAIN d.course_dict :
        /\ d.course_dict[cid].class_tag.t = "str"
        /\ StrUpper(d.course_dict[cid].class_tag.v) \in codes}

\* C15: for "Compare MATH 21a and MATH 23b" the interpreter returns the
\* intent comparison and the course_codes exactly MATH 21A and MATH 23B, the
\* letter of the course number kept; the specific bucket of find_courses
\* holds exactly the indexed courses with those two codes, with a confidence
\* of at least 0.8 (8000 ten-thousandths) when both are in the index.
C15_ComparisonKeepsLetterCodes ==
    ComparedLettered =>
        /\ cf_call.input.query_info.intent = "comparison"
        /\ SeqToSet(cf_call.input.query_info.course_codes) = {"MATH 21A", "MATH 23B"}
        /\ SeqToSet(cf_call.results.specific_courses)
                = CoursesTagged(db, {"MATH 21A", "MATH 23B"})
        /\ Cardinality(CoursesTagged(db, {"MATH 21A", "MATH 23B"})) = 2
                => cf_call.results.confidence_scores.specific_courses >= 8000

\* C18: find_courses leaves every course record of the database as it was:
\* whatever the sequence of find_courses calls and their intents, each entry
\* of course_dict keeps its field values.
C18_CourseRecordsUnchanged ==
    [][\A cid \in DOMAIN db.course_dict : db'.course_dict[cid] = db.course_dict[cid]]_vars

\* the courses left by the department, level and term filters of
\* _apply_all_filters (lines 409 to 452)
PassesFilters(d, query_info, student_profile) ==
    TermFiltered(d, query_info,
        LevelFiltered(d, query_info,
            DeptFiltered(d, FilterDepartments(query_info, student_profile),
                         FilterConfidence(query_info, student_profile)))).courses

\* the record has no number for the field
LacksValue(course, field) == course[field].t # "num"

\* the bound of the constraint is not what removes the course: there is no
\* bound, the record has no value to compare, or the value is within it
WithinOrLacking(course, constraints) ==
    /\ \/ constraints.max_hours.t = "none"
       \/ LacksValue(course, "mean_hours")
       \/ course.mean_hours.v <= constraints.max_hours.v
    /\ \/ constraints.min_score.t = "none"
       \/ LacksValue(course, "overall_score_course_mean")
       \/ course.overall_score_course_mean.v >= constraints.min_score.v

\* C22: a course record that lacks a rating or a workload value is never
\* removed by the structured filter of find_courses because of a min_score
\* or max_hours constraint: when it passes the department, level and term
\* filters, it is in filtered_courses.
C22_MissingValuesNotFilteredOut ==
    (cf_call.made /\ ~cf_call.raised) =>
        \A cid \in SeqToSet(PassesFilters(db, cf_call.input.query_info,
                                          cf_call.input.student_profile)) :
            (/\ \/ LacksValue(db.course_dict[cid], "mean_hours")
                \/ LacksValue(db.course_dict[cid], "overall_score_course_mean")
             /\ WithinOrLacking(db.course_dict[cid], cf_call.input.query_info.constraints))
                => cid \in SeqToSet(cf_call.results.filtered_courses)

\* find_courses answered a query that gives a level range and no department,
\* for a student who concentrates in Mathematics
LevelsOfConcentration ==
    /\ cf_call.made /\ ~cf_call.raised
    /\ cf_call.input.query_info.original_query = "130-139 courses"
    /\ cf_call.input.query_info.departments = <<>>
    /\ cf_call.input.query_info.course_levels = << <<130, 139>> >>
    /\ cf_call.input.student_profile.concentration = "Mathematics"

\* C24: when query_info has a level range and no department and the profile
\* has a concentration whose department has courses in the range
\* (concentration "Mathematics", range 130-139, MATH 13x courses indexed), the
\* level bucket of find_courses holds those courses of the concentration's
\* department.
C24_LevelBucketUsesConcentration ==
    LevelsOfConcentration =>
        SeqToSet(get_courses_by_level_range(db, "MATH", 130, 139))
            \subseteq SeqToSet(cf_call.results.level_courses)

\* C10: no strategy of find_courses raises to the caller because of a gap
\* in a course record; find_courses returns a result.
C10_NoStrategyRaises ==
    cf_call.made => ~cf_call.raised

-----------------------------------------------------------------------------
(* get_recommendations on one CourseRecommender: SpecCR *)

\* the number of get_recommendations calls made on the recommender
MaxRecCalls == 2

\* the queries and the profiles get_recommendations is called with
CRCases ==
    { <<"recommend 130-level math courses", Profile("", <<"MATH 136">>)>>,
      <<"recommend 130-level math courses", TakenProfile>>,
      <<"recommend 20-level math courses", Profile("", <<"MATH 21A">>)>>,
      <<"recommend 130-level math under 5 hours", NoProfile>>,
      <<"recommend math courses", NoProfile>>,
      <<"math courses", NoProfile>>,
      <<"recommend 150-level math score above 2", NoProfile>> }

\* query_info as the interpreter gives it for the query text of each case
CRInputs ==
    { [query_info |-> process(c[1], <<>>, NoQueryInfo, 0), student_profile |-> c[2]] :
        c \in CRCases }

\* what the search libraries may answer during one call over the database d
SearchAnswers(d) ==
    { [faiss |-> FaissFailure, bm25 |-> [k \in 1..Len(d.course_ids_for_bm25) |-> k - 1]] }
    \cup { [faiss |-> FaissIndices(FaissRanking(Len(d.course_ids_for_embeddings), rising)),
            bm25 |-> [k \in 1..Len(d.course_ids_for_bm25) |->
                        IF rising THEN Len(d.course_ids_for_bm25) - k ELSE k - 1]] :
           rising \in BOOLEAN }

InitCR ==
    /\ db \in CFDatabases
    /\ QPIdle
    /\ CFIdle
    /\ CRIdle
    /\ ThreadsIdle
    /\ ChatIdle

\* one call of get_recommendations; cr_call keeps the recommender as it was
\* before the call, what the search libraries answered, and the query_info
\* dict as the call leaves it
GetRecommendations ==
    \E input \in CRInputs, search \in SearchAnswers(db) :
        /\ cr_calls < MaxRecCalls
        /\ \E out \in {get_recommendations(db, cr, input.query_info, input.student_profile,
                                           search)} :
            /\ cr' = out.self
            /\ db' = out.db
            /\ cr_call' = [made |-> TRUE, input |-> input, search |-> search, before |-> cr,
                           raised |-> out.raised, hit |-> out.hit,
                           results |-> out.results, query_info |-> out.query_info]
        /\ cr_calls' = cr_calls + 1
        /\ UNCHANGED <<qp_vars, cf_vars, th_vars, chat_vars>>

NextCR == GetRecommendations

SpecCR == InitCR /\ [][NextCR]_vars

\* the class_tags of the recommended courses of the latest call that are strings
RecommendedTags ==
    { db.course_dict[cr_call.results.recommended_courses[i]].class_tag.v :
        i \in { j \in 1..Len(cr_call.results.recommended_courses) :
                    IsStr(db.course_dict[cr_call.results.recommended_courses[j]].class_tag) } }

\* C1: after any sequence of get_recommendations calls on one recommender,
\* cache hits included, no recommended course has a code whose normalized
\* form (department in upper case, one blank, the number) is the normalized
\* form of an entry of the courses_taken of the profile of that call.
C1_NeverRecommendsTaken ==
    (cr_call.made /\ ~cr_call.raised) =>
        \A tag \in RecommendedTags :
            TakenCode(tag) \notin _extract_taken_course_codes(cr_call.input.student_profile)

\* the latest call had a query_info whose intent is not course_recommendation
OtherIntent ==
    cr_call.made /\ cr_call.input.query_info.intent # "course_recommendation"

\* C14: for an intent other than course_recommendation get_recommendations
\* returns empty recommended_courses, workload_friendly_courses,
\* highly_rated_courses and alternative_paths with an explanation entry that
\* states the skip, and it neither reads nor writes the recommendation cache.
C14_OnlyForRecommendationIntent ==
    OtherIntent =>
        /\ ~cr_call.raised /\ ~cr_call.hit
        /\ cr_call.results.recommended_courses = <<>>
        /\ cr_call.results.workload_friendly_courses = <<>>
        /\ cr_call.results.highly_rated_courses = <<>>
        /\ cr_call.results.alternative_paths = <<>>
        /\ "Query intent is not asking for course recommendations."
                \in SeqToSet(cr_call.results.explanation)
        /\ cr.recommendation_cache = cr_call.before.recommendation_cache

\* such a call while the cache holds recommendations under the key of the call
C14_Witness ==
    /\ OtherIntent
    /\ _generate_cache_key(cr_call.input.query_info, cr_call.input.student_profile)
            \in DOMAIN cr.recommendation_cache
    /\ \E key \in DOMAIN cr.recommendation_cache :
            cr.recommendation_cache[key].recommended_courses # <<>>

\* the latest call found no candidates and went on to _get_relaxed_candidates
RelaxationRan ==
    /\ cr_call.made /\ ~cr_call.raised /\ ~cr_call.hit
    /\ "Expanding search with relaxed criteria..." \in SeqToSet(cr_call.results.explanation)

\* the attempts in the order of the claim, over the relaxed limits
RelaxationSteps(d, query_info, relaxed, student_profile, search) ==
    << _get_candidate_courses(d, [query_info EXCEPT !.constraints = relaxed],
                              student_profile, search).courses,
       _get_candidate_courses(d, [query_info EXCEPT !.constraints = NoConstraints],
                              student_profile, search).courses,
       WiderLevels(d, [query_info EXCEPT !.constraints = relaxed],
                   student_profile, search).courses,
       hybrid_search(d, query_info.original_query, 10, search).courses >>

\* the note the call leaves about the first attempt with a result
FirstResultNote(steps) ==
    IF \A n \in 1..Len(steps) : steps[n] = <<>>
    THEN "Still no candidates found even with relaxed criteria."
    ELSE CountNote("Found ",
                   Len(steps[SetMin({n \in 1..Len(steps) : steps[n] # <<>>})]),
                   " courses with relaxed criteria.")

\* the limit did not get stricter: max_hours not lower, min_score not higher
NotStricter(passed, relaxed) ==
    /\ passed.max_hours.t = "num" => relaxed.max_hours.v >= passed.max_hours.v
    /\ passed.min_score.t = "num" => relaxed.min_score.v <= passed.min_score.v

\* C25: when candidate generation yields nothing, _get_relaxed_candidates
\* tries, in this order and stopping at the first result that is not empty:
\* max_hours times 1.5 and min_score times 0.8 but not below 3.0; no
\* constraints; level ranges widened by 10 on each side; the unfiltered
\* hybrid search.  The relaxed max_hours is never lower and the relaxed
\* min_score never higher than the value the caller passed.
C25_RelaxationOrderedAndPermissive ==
    RelaxationRan =>
        /\ FirstResultNote(RelaxationSteps(db, cr_call.input.query_info,
                                           cr_call.query_info.constraints,
                                           cr_call.input.student_profile, cr_call.search))
                \in SeqToSet(cr_call.results.explanation)
        /\ NotStricter(cr_call.input.query_info.constraints, cr_call.query_info.constraints)

\* the fields of a Recommendation the caller reads
RecommendationFields(results) ==
    [recommended_courses |-> results.recommended_courses,
     reasons |-> results.reasons,
     alternative_paths |-> results.alternative_paths,
     self_reflection |-> results.self_reflection,
     confidence_scores |-> results.confidence_scores,
     explanation |-> results.explanation]

\* what the latest call computes on a recommender whose cache is empty
WithoutCache ==
    get_recommendations(db, [cr_call.before EXCEPT !.recommendation_cache = EmptyDict],
                        cr_call.input.query_info, cr_call.input.student_profile,
                        cr_call.search)

\* the latest call was answered from the recommendation cache
CacheHit == cr_call.made /\ ~cr_call.raised /\ cr_call.hit

\* C26: a get_recommendations call answered from the recommendation cache
\* returns a Recommendation equal in recommended_courses, reasons,
\* alternative_paths, self_reflection, confidence_scores and explanation to
\* what the same call computes without the cache, and the hit does not
\* change the cached entry.
C26_CacheHitEqualsComputed ==
    CacheHit =>
        /\ RecommendationFields(cr_call.results) = RecommendationFields(WithoutCache.results)
        /\ cr.recommendation_cache = cr_call.before.recommendation_cache

\* C27: get_recommendations leaves the query_info it is given unchanged,
\* constraints.max_hours and constraints.min_score included when the
\* relaxation path runs, so that the query_info the caller stores as the
\* previous intent holds the values the interpreter extracted.
C27_QueryInfoUnchanged ==
    (cr_call.made /\ ~cr_call.raised) => cr_call.query_info = cr_call.input.query_info

-----------------------------------------------------------------------------
(* find_courses calls of two threads on one CourseFinder: SpecCC *)
(* A call advances in the steps of find_courses that read or write the     *)
(* finder: steps 1 to 4, step 5 up to the call of the vector index, the    *)
(* answer of the index, step 6, and step 7 with the return.                *)

\* the query texts and profiles of the calls, and the databases
CCCases ==
    { <<"math courses", NoProfile>>,
      <<"Compare MATH 21a and MATH 23b", NoProfile>> }

CCInputs ==
    {in \in CFInputs : <<in.query_info.original_query, in.student_profile>> \in CCCases}

CCDatabases ==
    {build_indexes(ProcessAll(EmptyDB, FullRows), available, available) : available \in BOOLEAN}

InitCC ==
    /\ db \in CCDatabases
    /\ QPIdle
    /\ CFIdle
    /\ CRIdle
    /\ ThreadsIdle
    /\ ChatIdle

\* the call of a thread, ended by an exception
RaisedCall(input) == [pc |-> "raised", input |-> input]

\* the cache key of step 5 (line 531)
CallKey(call) ==
    "semantic:" \o SemanticQuery(call.input.query_info, call.input.student_profile)

\* lines 53 to 88: steps 1 to 4, each storing its confidence in
\* self.confidence_scores
StructuredStored(self, found) ==
    [self EXCEPT !.confidence_scores.specific_courses = found.specific.confidence,
                 !.confidence_scores.level_courses = found.level.confidence,
                 !.confidence_scores.term_courses = found.term.confidence,
                 !.confidence_scores.filtered_courses = found.filtered.confidence]

BeginCall(t) ==
    /\ th[t].pc = "idle"
    /\ \E input \in CCInputs :
        /\ db' = SpecificAssigned(db, input.query_info)
        /\ \E found \in {StructuredMemo[<<db', input>>]} :
            IF found.specific.raised
            THEN /\ cf' = cf
                 /\ th' = [th EXCEPT ![t] = RaisedCall(input)]
            ELSE IF found.term.raised
            THEN /\ cf' = [cf EXCEPT
                            !.confidence_scores.specific_courses = found.specific.confidence,
                            !.confidence_scores.level_courses = found.level.confidence]
                 /\ th' = [th EXCEPT ![t] = RaisedCall(input)]
            ELSE /\ cf' = StructuredStored(cf, found)
                 /\ th' = [th EXCEPT ![t] = [pc |-> "semantic", input |-> input,
                                             found |-> found]]
    /\ UNCHANGED <<qp_vars, cf_call, cf_first, cf_calls, cr_vars, chat_vars>>

\* lines 97 to 99 once _find_semantic_matches has its matches: the cache and
\* the confidence of the semantic bucket are written
SemanticStored(t, semantic) ==
    /\ cf' = [cf EXCEPT !.search_cache = semantic.search_cache,
                        !.confidence_scores.semantic_matches = semantic.confidence]
    /\ th' = [th EXCEPT ![t] = [pc |-> "rank", input |-> th[t].input, found |-> th[t].found,
                                semantic |-> Found(semantic.courses, semantic.confidence)]]

\* step 5 up to model.encode and embedding_index.search: a cached key and a
\* database without the index are answered at once (lines 531 to 537 of
\* course_finder.py, 612 to 618 of database.py)
SemanticStep(t) ==
    /\ th[t].pc = "semantic"
    /\ IF CallKey(th[t]) \in DOMAIN cf.search_cache
       THEN SemanticStored(t, Semantic(cf.search_cache[CallKey(th[t])], 7000, cf.search_cache))
       ELSE IF ~db.embedding_index
       THEN SemanticStored(t, SearchedMatches(cf.search_cache, CallKey(th[t]), <<>>))
       ELSE /\ cf' = cf
            /\ th' = [th EXCEPT ![t].pc = "searching"]
    /\ UNCHANGED <<db, qp_vars, cf_call, cf_first, cf_calls, cr_vars, chat_vars>>

\* the embedding model and the vector index answer the search of thread t
BackendAnswers(t) ==
    /\ th[t].pc = "searching"
    /\ \E faiss \in FaissAnswers(Len(db.course_ids_for_embeddings)) :
            SemanticStored(t, SearchedMatches(cf.search_cache, CallKey(th[t]),
                                              vector_search(db, faiss)))
    /\ UNCHANGED <<db, qp_vars, cf_call, cf_first, cf_calls, cr_vars, chat_vars>>

\* _determine_most_relevant for the call with the confidences it reads
RelevantWith(d, call, confidence_scores) ==
    _determine_most_relevant(d, call.found.specific.courses, call.found.filtered.courses,
                             call.semantic.courses, call.found.level.courses,
                             call.found.term.courses, confidence_scores,
                             call.input.query_info, call.input.student_profile)

\* lines 108 to 110: step 6 reads self.confidence_scores and stores the
\* confidence of relevant_courses in it
RankStep(t) ==
    /\ th[t].pc = "rank"
    /\ \E relevant \in {RelevantWith(db, th[t], cf.confidence_scores)} :
        /\ cf' = [cf EXCEPT !.confidence_scores.relevant_courses = relevant.confidence]
        /\ th' = [th EXCEPT ![t] = [pc |-> "verify", input |-> th[t].input,
                                    found |-> th[t].found, semantic |-> th[t].semantic,
                                    relevant |-> relevant]]
    /\ UNCHANGED <<db, qp_vars, cf_call, cf_first, cf_calls, cr_vars, chat_vars>>

\* the dict find_courses returns (lines 119 to 131), its confidence_scores a
\* copy of self.confidence_scores as they are at line 126
CallResults(call, verification, confidence_scores) ==
    [specific_courses |-> call.found.specific.courses,
     level_courses |-> call.found.level.courses,
     term_courses |-> call.found.term.courses,
     filtered_courses |-> call.found.filtered.courses,
     semantic_matches |-> call.semantic.courses,
     relevant_courses |-> call.relevant.courses,
     confidence_scores |-> confidence_scores,
     retrieval_explanation |->
        Explanations(call.found.specific.courses, call.found.level.courses,
                     call.found.term.courses, call.found.filtered.courses,
                     call.semantic.courses, call.relevant.courses, verification),
     verification |-> verification]

\* step 7 and the return
ReturnStep(t) ==
    /\ th[t].pc = "verify"
    /\ \E verification \in {_verify_results(db, th[t].relevant.courses,
                                            th[t].found.specific.courses,
                                            th[t].input.query_info,
                                            th[t].input.student_profile)} :
        th' = [th EXCEPT ![t] =
                IF verification.raised THEN RaisedCall(th[t].input)
                ELSE [pc |-> "returned", input |-> th[t].input, found |-> th[t].found,
                      semantic |-> th[t].semantic, relevant |-> th[t].relevant,
                      results |-> CallResults(th[t], verification.notes,
                                              cf.confidence_scores)]]
    /\ UNCHANGED <<db, qp_vars, cf_vars, cr_vars, chat_vars>>

\* the steps that are the thread's own
ThreadStep(t) == BeginCall(t) \/ SemanticStep(t) \/ RankStep(t) \/ ReturnStep(t)

NextCC == \E t \in Threads : ThreadStep(t) \/ BackendAnswers(t)

SpecCC == InitCC /\ [][NextCC]_vars

\* a thread that can take a step of its own takes it in the end; when the
\* index answers is not in the hands of find_courses
SpecCCLive == InitCC /\ [][NextCC]_vars /\ \A t \in Threads : WF_vars(ThreadStep(t))

\* C19: find_courses returns in the end even when the call of the semantic
\* backend never completes: the call is bounded by a timeout, after which
\* the semantic bucket is empty with confidence 0 and the other buckets are
\* returned.
C19_ReturnsThoughBackendHangs ==
    \A t \in Threads : (th[t].pc = "searching") ~> (th[t].pc = "returned")

\* the confidences the strategies of the call computed from its own inputs
OwnConfidence(call) ==
    StrategyConfidence(call.found.specific, call.found.level, call.found.term,
                       call.found.filtered, call.semantic, 0)

OwnRelevant(d, call) == RelevantWith(d, call, OwnConfidence(call))

\* C20: when two find_courses calls with different inputs run concurrently on
\* one CourseFinder, the confidence_scores each call returns, and the
\* confidence its relevant_courses are ranked with, are those computed from
\* its own inputs, whatever the interleaving.
C20_ConcurrentCallsKeepOwnConfidence ==
    \A t \in Threads :
        th[t].pc = "returned" =>
            /\ th[t].results.confidence_scores =
                    [OwnConfidence(th[t]) EXCEPT
                        !.relevant_courses = OwnRelevant(db, th[t]).confidence]
            /\ th[t].relevant = OwnRelevant(db, th[t])

-----------------------------------------------------------------------------
(* The chat turn loop of chat_interface: SpecChat *)

\* the user messages one session takes
MaxTurns == 2

\* the profile of the session
ChatProfile == MathProfile

\* the welcome message of lines 611 to 626, cut to its first line
welcome_msg ==
    Msg("assistant", "Hi there, " \o ChatProfile.concentration \o " student! I'm your Harvard academic advisor.")

\* the message of line 743
error_message ==
    "I'm sorry, I encountered an error while processing your request. Please try again or ask a different question."

\* what the user types in the form
ChatInputs ==
    { "recommend 130-level math under 5 hours",
      "what about something easier",
      "math 131" }

\* what generate_response returns: the text of the model, or the text of
\* line 894 when the three attempts have failed
ChatReplies ==
    { "I recommend MATH 131.",
      "I'm having trouble generating a response right now. Please check your API key or try again later." }

\* how the rest of the try block ends once the recommendations are there:
\* build_context or the construction of the client raises, or
\* generate_response returns a text
TurnAnswers ==
    {[raised |-> TRUE]} \cup {[raised |-> FALSE, response |-> r] : r \in ChatReplies}

\* lines 576 to 627: an empty history gets the welcome message
Welcomed(chat_history) == IF chat_history = <<>> THEN <<welcome_msg>> ELSE chat_history

Accepted_whileProcessing(session, submit, user_input) ==
    submit /\ user_input # ""

\* line 665: the submission is taken when the form was sent with a text and
\* no query is being processed
Accepted(session, submit, user_input) ==
    submit /\ user_input # "" /\ ~session.processing_query

\* line 679: the user messages of the history
UserMessages(chat_history) == SelectSeq(chat_history, LAMBDA msg : msg.role = "user")

\* what process reads of the chat history: whether it has two entries, and
\* its last entry (lines 192-193, 651-652 and 663-664 of query_processor.py)
ReadOf(chat_history) ==
    IF Len(chat_history) >= 2
    THEN <<chat_history[1], chat_history[Len(chat_history)]>>
    ELSE chat_history

\* Extracted for the turns of the model, computed once and kept as a table
ChatMemo ==
    ExtractedTable({<<query, <<welcome_msg, Msg("user", query)>>, hash_seed>> :
                        query \in ChatInputs, hash_seed \in HashSeeds})

\* lines 692-693: QueryProcessor(query, chat_history, last_query_info).process()
Interpreted(query, chat_history, last_query_info, hash_seed) ==
    Inherit(ChatMemo[<<query, ReadOf(chat_history), hash_seed>>], last_query_info)

\* lines 726 to 732 when the try block ran through, lines 743 to 747 when it
\* raised; given is the chat_history the QueryProcessor was made with
Answered(session, query, query_info, answer) ==
    IF answer.raised
    THEN [session EXCEPT
            !.chat_history = Append(@, Msg("assistant", error_message)),
            !.processing_query = FALSE,
            !.turn = [ran |-> TRUE, query |-> query, given |-> session.chat_history,
                      raised |-> TRUE]]
    ELSE [session EXCEPT
            !.last_query_info = SomeQueryInfo(query_info),
            !.chat_history = Append(@, Msg("assistant", answer.response)),
            !.processing_query = FALSE,
            !.turn = [ran |-> TRUE, query |-> query, given |-> session.chat_history,
                      raised |-> FALSE]]

\* the databases of the sessions: the table with gaps, with and without the
\* search indexes
ChatDatabases ==
    { build_indexes(ProcessAll(EmptyDB, RaggedRows), available, available) :
        available \in BOOLEAN }

\* lines 692 to 703 for one user message: the query is interpreted, a new
\* CourseFinder may write hours to course records, and a new
\* CourseRecommender answers; the outcome holds the database and the
\* query_info dict as the calls leave them
TurnOutcome(d, last_query_info, hash_seed, query, chat_history, search) ==
    With(Interpreted(query, chat_history, last_query_info, hash_seed), LAMBDA query_info :
        get_recommendations(SpecificAssigned(d, query_info), NewCourseRecommender,
                            query_info, ChatProfile, search))

\* the turns a session <<database, last_query_info, hash seed>> may take
TurnsOf(session) ==
    { <<session[1], session[2], session[3], query, <<welcome_msg, Msg("user", query)>>, search>> :
        query \in ChatInputs, search \in SearchAnswers(session[1]) }

\* TurnOutcome of every turn of turns, added to table
RECURSIVE TurnTable(_, _)
TurnTable(turns, table) ==
    IF turns = {} THEN table
    ELSE With(CHOOSE turn \in turns : TRUE, LAMBDA turn :
            TurnTable(turns \ {turn},
                      (turn :> TurnOutcome(turn[1], turn[2], turn[3], turn[4], turn[5], turn[6]))
                      @@ table))

\* the sessions the turns of table lead from and to: a turn that raises
\* keeps last_query_info, one that runs through stores query_info
SessionsOf(sessions, table) ==
    sessions
    \cup { <<table[turn].db, turn[2], turn[3]>> : turn \in DOMAIN table }
    \cup { <<table[turn].db, SomeQueryInfo(table[turn].query_info), turn[3]>> : turn \in DOMAIN table }

\* the outcomes of the turns of the sessions of up to n user messages
RECURSIVE TurnsUpTo(_)
TurnsUpTo(n) ==
    IF n = 0
    THEN [sessions |-> {<<d, NoQueryInfo, hash_seed>> : d \in ChatDatabases, hash_seed \in HashSeeds},
          table |-> EmptyDict]
    ELSE With(TurnsUpTo(n - 1), LAMBDA before :
            With(TurnTable((UNION {TurnsOf(session) : session \in before.sessions})
                               \ DOMAIN before.table,
                           before.table), LAMBDA table :
                [sessions |-> SessionsOf(before.sessions, table), table |-> table]))

\* the turns of the model, computed once and kept as a table
TurnMemo == TurnsUpTo(MaxTurns).table

InitChat ==
    /\ db \in ChatDatabases
    /\ qp_seed \in HashSeeds
    /\ qp_last = NoQueryInfo
    /\ qp_run = NoRun
    /\ qp_self = NoInstance
    /\ CFIdle
    /\ CRIdle
    /\ ThreadsIdle
    /\ ChatIdle

\* a run of the script that takes no submission while no query is being
\* processed: the page is drawn, with the welcome message on the first run
Render ==
    /\ ~chat.processing_query
    /\ \E submit \in BOOLEAN, user_input \in ChatInputs \cup {""} :
        /\ chat.chat_history = <<>> => ~submit
        /\ ~Accepted(chat, submit, user_input)
    /\ chat' = [chat EXCEPT !.chat_history = Welcomed(@)]
    /\ UNCHANGED <<db, qp_vars, cf_vars, cr_vars, th_vars>>

\* the run in which the form is sent, lines 665 to 672: the form is on the
\* page once a run has drawn it, and st.rerun() ends the run
Submit ==
    \E user_input \in ChatInputs :
        /\ chat.chat_history # <<>>
        /\ Len(UserMessages(chat.chat_history)) < MaxTurns
        /\ Accepted(chat, TRUE, user_input)
        /\ chat' = [chat EXCEPT !.processing_query = TRUE,
                                !.chat_history = Append(@, Msg("user", user_input))]
        /\ UNCHANGED <<db, qp_vars, cf_vars, cr_vars, th_vars>>

\* the run that follows, lines 676 to 749: the query is interpreted with the
\* history as it is, a new CourseFinder may write hours to course records, a
\* new CourseRecommender may relax the constraints of query_info, and the
\* reply or the error message ends the turn. A text sent meanwhile is not
\* taken (line 665). st.rerun() raises a script control exception, which
\* "except Exception" does not catch.
ProcessTurn ==
    /\ chat.processing_query
    /\ \E submit \in BOOLEAN, user_input \in ChatInputs : ~Accepted(chat, submit, user_input)
    /\ IF UserMessages(chat.chat_history) = <<>>
       THEN /\ chat' = [chat EXCEPT !.processing_query = FALSE]
            /\ UNCHANGED db
       ELSE \E query \in {UserMessages(chat.chat_history)[Len(UserMessages(chat.chat_history))].content} :
            \E search \in SearchAnswers(db) :
            \E out \in {TurnMemo[<<db, chat.last_query_info, qp_seed, query,
                                    ReadOf(chat.chat_history), search>>]} :
            \E answer \in TurnAnswers :
                /\ db' = out.db
                /\ chat' = Answered(chat, query, out.query_info, answer)
    /\ UNCHANGED <<qp_vars, cf_vars, cr_vars, th_vars>>

NextChat == Render \/ Submit \/ ProcessTurn

SpecChat == InitChat /\ [][NextChat]_vars

\* after st.rerun() the script runs again, so a query being processed gets
\* its processing run
SpecChatLive == InitChat /\ [][NextChat]_vars /\ WF_vars(ProcessTurn)

\* the entry of the history the interpreter of the latest turn read as the
\* last response: chat_history[-1] of the list it was made with
Inspected == chat.turn.given[Len(chat.turn.given)]

\* the entry before the user message the latest turn processed
PrecedingTurn == chat.turn.given[Len(chat.turn.given) - 1]

\* C29: when the interpreter runs for a user message, the entry of the
\* history it reads as the immediately preceding assistant turn
\* (chat_history[-1]) is an assistant message, the one that precedes the
\* user message being processed (the reply to the previous user message),
\* and not the user message being processed.
C29_InspectsPrecedingAssistantTurn ==
    chat.turn.ran =>
        /\ Inspected.role = "assistant"
        /\ Inspected = PrecedingTurn
        /\ Inspected # Msg("user", chat.turn.query)

\* every user message of the history but a last one being processed is
\* followed by one assistant message, and by no second one
OneReplyEach ==
    /\ \A i \in 1..Len(chat.chat_history) :
        chat.chat_history[i].role = "user" =>
            IF i = Len(chat.chat_history) THEN chat.processing_query
            ELSE /\ chat.chat_history[i + 1].role = "assistant"
                 /\ i + 2 <= Len(chat.chat_history) => chat.chat_history[i + 2].role = "user"
    /\ chat.processing_query =>
        /\ chat.chat_history # <<>>
        /\ chat.chat_history[Len(chat.chat_history)].role = "user"

\* the n-th user message is in the history and is being processed
Pending(n) == chat.processing_query /\ Len(UserMessages(chat.chat_history)) = n

\* the n-th user message has its assistant message, a reply or the error
\* message, and nothing is being processed
Replied(n) ==
    /\ ~chat.processing_query
    /\ Len(UserMessages(chat.chat_history)) = n
    /\ chat.chat_history[Len(chat.chat_history)].role = "assistant"
    /\ chat.chat_history[Len(chat.chat_history)].content \in ChatReplies \cup {error_message}

\* a run made while a query is being processed ends the processing and
\* takes no user message
EndsProcessing ==
    chat.processing_query =>
        /\ ~chat'.processing_query
        /\ UserMessages(chat'.chat_history) = UserMessages(chat.chat_history)
        /\ Len(chat'.chat_history) = Len(chat.chat_history) + 1

\* last_query_info changes only in a processing run that did not raise
ReplacedOnSuccess ==
    /\ chat'.last_query_info # chat.last_query_info =>
        chat.processing_query /\ chat'.turn.ran /\ ~chat'.turn.raised
    /\ (chat.processing_query /\ chat'.turn.ran /\ chat'.turn.raised) =>
        chat'.last_query_info = chat.last_query_info

\* C30: in the chat turn loop every submitted user message is in the end
\* followed by exactly one assistant message, the reply or the error
\* message; processing_query is false again after the processing run,
\* whether it ran through or raised; no user message is taken while
\* processing_query is true; and last_query_info is replaced only by a
\* processing run that completed without an exception.
C30_EveryMessageAnsweredOnce ==
    /\ []OneReplyEach
    /\ \A n \in 1..MaxTurns : Pending(n) ~> Replied(n)
    /\ [][EndsProcessing]_vars
    /\ [][ReplacedOnSuccess]_vars

\* a first turn ran through and a second one raised: each user message has
\* its one assistant message, nothing is being processed, and
\* last_query_info is still that of the first turn
C30_Witness ==
    /\ ~chat.processing_query
    /\ Len(chat.chat_history) = 5
    /\ chat.chat_history[2].role = "user"
    /\ chat.chat_history[3].content \in ChatReplies
    /\ chat.chat_history[4].role = "user"
    /\ chat.chat_history[5] = Msg("assistant", error_message)
    /\ chat.turn.raised
    /\ chat.last_query_info.some
    /\ chat.last_query_info.info.original_query = chat.chat_history[2].content
    /\ chat.chat_history[4].content # chat.chat_history[2].content

====
